---- MODULE Spec2Model ----
(***************************************************************************)
(* A state-machine model of rednote-mcp: the detail-fetch batch            *)
(* (extractNotes / getNoteDetail), the search pipeline                     *)
(* (searchXiaohongshu / handleLogin), the result cache (SearchCache) and   *)
(* the /search request handler.                                            *)
(*                                                                         *)
(* JavaScript runs one synchronous segment at a time; control can change   *)
(* hands only at an await.  Every action below is one such segment: from   *)
(* the settling of the promise a task awaits to the next await it reaches. *)
(* Sequences are 1-based: JavaScript index i is position i + 1.            *)
(***************************************************************************)
EXTENDS Integers, Sequences, FiniteSets, TLC

\* ------------------------------------------------------------------ bounds

\* Largest `count` a search is invoked with in the batch specification.
MaxCount == 4

\* Most SearchCache calls made in the cache specifications.
MaxCalls == 3

\* Longest query of the key specification.
MaxQueryLen == 2

\* The clock shows the instants up to MaxDrift after the start of the process
\* and up to MaxDrift after CACHE_EXPIRY_MS later, and stops once it would
\* make a stored entry older than CACHE_EXPIRY_MS + MaxDrift.
MaxDrift == 1

\* Concurrent invocations of searchXiaohongshu the model distinguishes.
Reqs == {1, 2}

\* ------------------------------------------------------- program constants

\* The 3 of Math.min(3, noteLinks.length)
MaxConcurrency == 3

Min(a, b) == IF a < b THEN a ELSE b

\* ------------------------------------------------------------------ values

\* The value read from an array hole (results holds note objects).
Undefined == [undefined |-> TRUE]

\* The value of an absent authorDesc property.
NoAuthorDesc == "undefined"

\* A worker's `noteInfo` before it pulled anything.
NoRef == [oid |-> 0, title |-> "", link |-> <<>>, author |-> ""]

Host == "https://www.xiaohongshu.com/"

\* Listing pages (the .note-item elements in DOM order).  An href is a
\* sequence of tokens; the empty sequence is a missing or empty href.
\* Two elements may resolve to the same link.
ListingA ==
  << [title |-> "t1", href |-> <<"/", "p1">>, author |-> "a1"],
     [title |-> "",   href |-> <<>>,          author |-> "a2"],
     [title |-> "t3", href |-> <<Host, "p1">>, author |-> ""],
     [title |-> "t4", href |-> <<Host, "p2">>, author |-> "a4"],
     [title |-> "t5", href |-> <<"/", "p3">>, author |-> "a5"],
     [title |-> "t6", href |-> <<"/", "p4">>, author |-> "a6"] >>

ListingB ==
  << [title |-> "u1", href |-> <<Host, "q1">>, author |-> "b1"],
     [title |-> "u2", href |-> <<Host, "q2">>, author |-> "b2"],
     [title |-> "u3", href |-> <<Host, "q1">>, author |-> "b3"],
     [title |-> "u4", href |-> <<Host, "q3">>, author |-> "b4"] >>

\* A listing whose only element has no link.
ListingC ==
  << [title |-> "v1", href |-> <<>>, author |-> "c1"] >>

Listings == {ListingA, ListingB, ListingC, <<>>}

\* Worker indices: the workers array never holds more entries than the
\* listing has elements.
Workers == 0 .. (Len(ListingA) - 1)

\* What page.evaluate can read from a detail page: everything present, or
\* nothing matched by the selectors.
RichDetail ==
  [title |-> "dT", content |-> "dC", author |-> "dA", authorDesc |-> "bio",
   images |-> <<"img">>, likes |-> 7, collects |-> 2, comments |-> 1,
   tags |-> <<"#tag">>]

SparseDetail ==
  [title |-> "", content |-> "", author |-> "", authorDesc |-> NoAuthorDesc,
   images |-> <<>>, likes |-> 0, collects |-> 0, comments |-> 0,
   tags |-> <<>>]

DetailData == {RichDetail, SparseDetail}

\* The object getNoteDetailData returns from its catch block (no authorDesc
\* property: reading it gives undefined).
EmptyDetail ==
  [title |-> "", content |-> "", author |-> "", authorDesc |-> NoAuthorDesc,
   images |-> <<>>, likes |-> 0, collects |-> 0, comments |-> 0,
   tags |-> <<>>]

\* ------------------------------------------------------------------- state

VARIABLES
  dom,          \* [Reqs -> listing]  the listing page of the invocation
  count,        \* [Reqs -> Nat]      the `count` argument
  xpc,          \* [Reqs -> position of extractNotes]
  noteLinks,    \* [Reqs -> Seq(ref)]
  concurrency,  \* [Reqs -> Nat]
  queue,        \* [Reqs -> Seq(ref)]
  results,      \* [Reqs -> Seq(note or Undefined)]
  notes,        \* [Reqs -> Seq(note)] the value extractNotes returned
  wpc,          \* [Reqs -> [Workers -> position of the worker]]
  noteInfo,     \* [Reqs -> [Workers -> ref]]
  index,        \* [Reqs -> [Workers -> Nat]] 1-based
  notePage,     \* [Reqs -> [Workers -> "null" | "open"]]
  note,         \* [Reqs -> [Workers -> note]] getNoteDetail's pending result
  fate,         \* [Reqs -> Seq(history of the fetch of reference i)]
  pulls,        \* [Reqs -> Seq(oid)] references in the order they were pulled
  pagesOpened,  \* [Reqs -> Nat] item pages opened so far
  softTimeout,  \* [Reqs -> [Workers -> BOOLEAN]] the fetch in progress ran
                \* into the container wait's timeout
  waited        \* [Reqs -> [Workers -> Nat]] ms of the timers the worker
                \* awaited since it started or last left getNoteDetail

batchVars ==
  << dom, count, xpc, noteLinks, concurrency, queue, results, notes, wpc,
     noteInfo, index, notePage, note, fate, pulls, pagesOpened,
     softTimeout, waited >>

VARIABLES
  envCookies,     \* process.env.COOKIES: "absent", "malformed" or a cookie set
  cookieFile,     \* the file at COOKIES_PATH: "absent", "malformed" or a set
  validSessions,  \* the cookie sets the site accepts as a logged-in session
  spc,            \* [Reqs -> position of searchXiaohongshu / handleLogin]
  browser,        \* [Reqs -> "null" | "headless" | "headful" | "closed"]
  ctxCookies,     \* [Reqs -> cookie set of the current context]
  pageUrl,        \* [Reqs -> URL the current page shows]
  cookiesLoaded,  \* [Reqs -> BOOLEAN] const cookiesLoaded
  isLoggedIn,     \* [Reqs -> BOOLEAN] const isLoggedIn of searchXiaohongshu
  loginSuccess,   \* [Reqs -> BOOLEAN] const loginSuccess
  pollI,          \* [Reqs -> Nat] the loop variable i of handleLogin
  loginPage,      \* [Reqs -> BOOLEAN] handleLogin's `page` is set
  loginDetected,  \* [Reqs -> BOOLEAN] handleLogin's local isLoggedIn
  snapshot,       \* [Reqs -> cookie set read by context.cookies() in saveCookies]
  err,            \* [Reqs -> the exception in flight, "none" if none]
  decided,        \* [Reqs -> BOOLEAN] the login decision has been evaluated
  loginPath,      \* [Reqs -> BOOLEAN] the manual-login branch was taken
  loginCycles,    \* [Reqs -> Nat] calls of handleLogin
  polls,          \* [Reqs -> Nat] checkLoginStatus calls made by handleLogin
  lastVerify      \* the last checkLoginStatus call: what it saw and returned

searchVars ==
  << envCookies, cookieFile, validSessions, spc, browser, ctxCookies, pageUrl,
     cookiesLoaded, isLoggedIn, loginSuccess, pollI, loginPage, loginDetected,
     snapshot, err, decided, loginPath, loginCycles, polls, lastVerify >>

VARIABLES
  cache,        \* SearchCache.cache: [key -> entry], the in-memory store
  initialized,  \* SearchCache.initialized
  cacheFile,    \* the file at CACHE_PATH
  now,          \* the value Date.now() returns
  cpc,          \* [Reqs -> position of the caller's SearchCache call]
  cargs,        \* [Reqs -> the call's operation and arguments]
  cret,         \* [Reqs -> the value the call's promise resolved with]
  cjson,        \* [Reqs -> the text the pending fs.writeFile was given]
  chist,        \* [Reqs -> what the call found when it started, and whether
                \*  one of its file operations failed]
  lastCall,     \* the call whose body ran last: operation, key, time, result
  written,      \* [key -> payload and time of the latest set since the
                \*  latest clear]
  calls,        \* SearchCache calls made so far
  cleared,      \* clear has been called since the process started
  inits         \* times init assigned this.cache: the parsed file, or {}
                \* in one of its catch blocks

cacheVars ==
  << cache, initialized, cacheFile, now, cpc, cargs, cret, cjson, chist,
     lastCall, written, calls, cleared, inits >>

VARIABLES
  hpc,       \* [Reqs -> position of the /search handler]
  hreq,      \* [Reqs -> the validated { query, count } of the request]
  response,  \* [Reqs -> the response sent: status and JSON body]
  searches   \* [Reqs -> Nat] calls of searchXiaohongshu made by the handler

VARIABLES
  env,       \* the Worker's Env: whether XIAOHONGSHU_API_URL and
             \* SCRAPING_SERVICE_API_KEY are set
  mpc,       \* position of handleMcpRequest
  body,      \* the JSON body of the request being handled
  outbound,  \* the fetch searchXiaohongshuWorker made, and how it settled
  reply      \* the Response handleMcpRequest returned

mcpVars == << env, mpc, body, outbound, reply >>

VARIABLES
  scrollArg,     \* the `count` performSearch was called with
  apc,           \* position of performSearch / autoScroll after the feeds wait
  scrollHeight,  \* document.body.scrollHeight of the listing page
  totalHeight,   \* autoScroll's totalHeight
  scrollCount,   \* autoScroll's scrollCount
  lastHeight     \* the scrollHeight the previous interval callback read

scrollVars ==
  << scrollArg, apc, scrollHeight, totalHeight, scrollCount, lastHeight >>

httpVars == << hpc, hreq, response, searches, mcpVars, scrollVars >>

vars == << batchVars, searchVars, cacheVars, httpVars >>

\* What the actions of one component leave alone.
nonBatchVars == << searchVars, cacheVars, httpVars >>

nonSearchVars == << batchVars, cacheVars, httpVars >>

nonPipelineVars == << cacheVars, httpVars >>

nonCacheVars == << batchVars, searchVars, httpVars >>

\* ------------------------------------------------------- pure functions

\* (href).replace(/^\//, 'https://www.xiaohongshu.com/')
ResolveHref(h) ==
  IF h /= <<>> /\ Head(h) = "/" THEN <<Host>> \o Tail(h) ELSE h

\* The object the map callback of extractNoteLinks builds for one element.
\* oid is the identity of the fresh object (its position in the mapped array).
LinkOf(element, i) ==
  [oid    |-> i,
   title  |-> IF element.title = "" THEN "No Title" ELSE element.title,
   link   |-> ResolveHref(element.href),
   author |-> IF element.author = "" THEN "Unknown Author" ELSE element.author]

\* links.filter(item => ... && !!item.link)
RECURSIVE FilterLinks(_)
FilterLinks(s) ==
  IF s = <<>> THEN <<>>
  ELSE IF Head(s).link /= <<>> THEN <<Head(s)>> \o FilterLinks(Tail(s))
  ELSE FilterLinks(Tail(s))

\* A link discovery that returns the mapped array as it is.
ExtractNoteLinksUnfiltered(listing, maxCount) ==
  LET n == Min(Len(listing), maxCount)
  IN [i \in 1 .. n |-> LinkOf(listing[i], i)]

\* extractNoteLinks: noteElements.slice(0, maxCount).map(...), then the filter.
ExtractNoteLinks(listing, maxCount) ==
  LET n == Min(Len(listing), maxCount)
      mapped == [i \in 1 .. n |-> LinkOf(listing[i], i)]
  IN FilterLinks(mapped)

\* A lookup that identifies a reference by its link instead of by the object.
IndexOfByLink(links, info) ==
  IF \E i \in 1 .. Len(links) : links[i].link = info.link
  THEN CHOOSE i \in 1 .. Len(links) :
         /\ links[i].link = info.link
         /\ \A j \in 1 .. (i - 1) : links[j].link /= info.link
  ELSE 0

\* noteLinks.indexOf(noteInfo): the first position holding the same object.
IndexOf(links, info) ==
  IF \E i \in 1 .. Len(links) : links[i].oid = info.oid
  THEN CHOOSE i \in 1 .. Len(links) :
         /\ links[i].oid = info.oid
         /\ \A j \in 1 .. (i - 1) : links[j].oid /= info.oid
  ELSE 0

\* results[index] = note on a JavaScript array: positions skipped are holes.
SetAt(arr, i, v) ==
  [j \in 1 .. (IF i > Len(arr) THEN i ELSE Len(arr)) |->
     IF j = i THEN v ELSE IF j <= Len(arr) THEN arr[j] ELSE Undefined]

\* results.filter(note => note !== undefined)
RECURSIVE FilterDefined(_)
FilterDefined(s) ==
  IF s = <<>> THEN <<>>
  ELSE IF Head(s) /= Undefined THEN <<Head(s)>> \o FilterDefined(Tail(s))
  ELSE FilterDefined(Tail(s))

\* a || b on strings
OrElse(a, b) == IF a = "" THEN b ELSE a

\* The object getNoteDetail returns from its try block.
FullNote(info, d) ==
  [title      |-> OrElse(d.title, info.title),
   content    |-> OrElse(d.content, "No content"),
   author     |-> OrElse(d.author, info.author),
   authorDesc |-> d.authorDesc,
   link       |-> info.link,
   likes      |-> d.likes,
   collects   |-> d.collects,
   comments   |-> d.comments,
   tags       |-> d.tags,
   images     |-> d.images]

\* A catch block that builds the complete shape from empty data.
DegradedNoteAsFull(info) ==
  [title      |-> info.title,
   content    |-> "No content",
   author     |-> info.author,
   authorDesc |-> NoAuthorDesc,
   link       |-> info.link,
   likes      |-> 0,
   collects   |-> 0,
   comments   |-> 0,
   tags       |-> <<>>,
   images     |-> <<>>]

\* The object getNoteDetail returns from its catch block.
DegradedNote(info) ==
  [title   |-> info.title,
   content |-> "Failed to get content",
   author  |-> info.author,
   link    |-> info.link]

\* --------------------------------------------------------- extractNotes

\* An extractNotes without the early return.
ShortCircuitNever(links) == FALSE

\* if (noteLinks.length === 0) return [];
ShortCircuit(links) == Len(links) = 0

\* One worker per reference.
ConcurrencyUnbounded(n) == n

\* const concurrency = Math.min(3, noteLinks.length);
Concurrency(n) == Min(MaxConcurrency, n)

NoFate == [fetches |-> 0, how |-> "none"]

WorkerIdle ==
  [w \in Workers |-> "none"]

\* A start in which every worker reads the head of the queue without
\* removing it.
FirstPullHead(links, w) == links[1]

\* The synchronous start of one worker's loop body: queue.shift() and indexOf.
\* Worker w runs it after workers 0 .. w-1 did, so it finds w items removed.
FirstPull(links, w) == links[w + 1]

\* extractNoteLinks resolved with no usable link (or its evaluate threw and
\* it returned []): extractNotes returns [] at once.
ExtractNotesEmpty(r) ==
  /\ xpc[r] = "links"
  /\ \E threw \in BOOLEAN :
       LET links == IF threw THEN <<>> ELSE ExtractNoteLinks(dom[r], count[r])
       IN /\ ShortCircuit(links)
          /\ noteLinks' = [noteLinks EXCEPT ![r] = links]
  /\ notes' = [notes EXCEPT ![r] = <<>>]
  /\ xpc' = [xpc EXCEPT ![r] = "returned"]
  /\ UNCHANGED << dom, count, concurrency, queue, results, wpc, noteInfo,
                  index, notePage, note, fate, pulls, pagesOpened,
                  softTimeout, waited >>
  /\ UNCHANGED nonBatchVars

\* extractNoteLinks resolved with N >= 1 links: the queue and the result
\* array are created and the map callback starts every worker, each running
\* to its first await (the stagger timer) with one reference pulled.  A
\* worker started on an empty queue skips its loop and is finished.
ExtractNotesStart(r) ==
  /\ xpc[r] = "links"
  /\ LET links == ExtractNoteLinks(dom[r], count[r])
         c == Concurrency(Len(links))
     IN /\ ~ShortCircuit(links)
        /\ noteLinks' = [noteLinks EXCEPT ![r] = links]
        /\ concurrency' = [concurrency EXCEPT ![r] = c]
        /\ queue' = [queue EXCEPT ![r] =
                       SubSeq(links, Min(c, Len(links)) + 1, Len(links))]
        /\ results' = [results EXCEPT ![r] = <<>>]
        /\ wpc' = [wpc EXCEPT ![r] =
                     [w \in Workers |->
                        IF w >= c THEN "none"
                        ELSE IF w < Len(links) THEN "stagger" ELSE "done"]]
        /\ noteInfo' = [noteInfo EXCEPT ![r] =
                     [w \in Workers |->
                        IF w < Min(c, Len(links)) THEN FirstPull(links, w)
                        ELSE NoRef]]
        /\ index' = [index EXCEPT ![r] =
                     [w \in Workers |->
                        IF w < Min(c, Len(links))
                        THEN IndexOf(links, FirstPull(links, w))
                        ELSE 0]]
        /\ fate' = [fate EXCEPT ![r] = [i \in 1 .. Len(links) |-> NoFate]]
        /\ pulls' = [pulls EXCEPT ![r] =
                     [i \in 1 .. Min(c, Len(links)) |->
                        FirstPull(links, i - 1).oid]]
  /\ xpc' = [xpc EXCEPT ![r] = "workers"]
  /\ waited' = [waited EXCEPT ![r] = [w \in Workers |-> 0]]
  /\ UNCHANGED << dom, count, notes, notePage, note, pagesOpened, softTimeout >>
  /\ UNCHANGED nonBatchVars

\* ---------------------------------------------------------- getNoteDetail

\* setTimeout(resolve, workerIndex * 1000), awaited before getNoteDetail
StaggerMs(w) == w * 1000

\* setTimeout(resolve, 2000), awaited after getNoteDetail
DelayMs == 2000

\* getNoteDetail returned `n` to the worker: results[index] = note, then the
\* worker awaits the 2000 ms inter-request timer.
WorkerStores(r, w, n) ==
  /\ results' = [results EXCEPT ![r] = SetAt(results[r], index[r][w], n)]
  /\ wpc' = [wpc EXCEPT ![r][w] = "delay"]
  /\ waited' = [waited EXCEPT ![r][w] = 0]

\* A stagger that is awaited before a worker's first fetch only.
StaggerElapsedOnce(r, w) ==
  /\ xpc[r] = "workers"
  /\ wpc[r][w] = "stagger"
  /\ notePage' = [notePage EXCEPT ![r][w] = "null"]
  /\ fate' = [fate EXCEPT ![r][index[r][w]].fetches = @ + 1]
  /\ wpc' = [wpc EXCEPT ![r][w] = "newPage"]
  /\ waited' = [waited EXCEPT ![r][w] =
                  IF @ = 0 THEN StaggerMs(w) ELSE @]
  /\ UNCHANGED << dom, count, xpc, noteLinks, concurrency, queue, results,
                  notes, noteInfo, index, note, pulls, pagesOpened,
                  softTimeout >>
  /\ UNCHANGED nonBatchVars

\* The stagger timer (workerIndex * 1000 ms) fired: getNoteDetail is entered
\* and awaits context.newPage().
StaggerElapsed(r, w) ==
  /\ xpc[r] = "workers"
  /\ wpc[r][w] = "stagger"
  /\ notePage' = [notePage EXCEPT ![r][w] = "null"]
  /\ fate' = [fate EXCEPT ![r][index[r][w]].fetches = @ + 1]
  /\ wpc' = [wpc EXCEPT ![r][w] = "newPage"]
  /\ waited' = [waited EXCEPT ![r][w] = @ + StaggerMs(w)]
  /\ UNCHANGED << dom, count, xpc, noteLinks, concurrency, queue, results,
                  notes, noteInfo, index, note, pulls, pagesOpened, softTimeout >>
  /\ UNCHANGED nonBatchVars

\* context.newPage() resolved: the page exists and goto is awaited.
NewPageOk(r, w) ==
  /\ wpc[r][w] = "newPage"
  /\ notePage' = [notePage EXCEPT ![r][w] = "open"]
  /\ pagesOpened' = [pagesOpened EXCEPT ![r] = @ + 1]
  /\ wpc' = [wpc EXCEPT ![r][w] = "goto"]
  /\ UNCHANGED << dom, count, xpc, noteLinks, concurrency, queue, results,
                  notes, noteInfo, index, note, fate, pulls,
                  softTimeout, waited >>
  /\ UNCHANGED nonBatchVars

\* context.newPage() rejected: catch builds the basic record, finally finds
\* notePage null, the record is returned and stored.
NewPageFail(r, w) ==
  /\ wpc[r][w] = "newPage"
  /\ fate' = [fate EXCEPT ![r][index[r][w]].how = "newPageErr"]
  /\ WorkerStores(r, w, DegradedNote(noteInfo[r][w]))
  /\ UNCHANGED << dom, count, xpc, noteLinks, concurrency, queue, notes,
                  noteInfo, index, notePage, note, pulls, pagesOpened,
                  softTimeout >>
  /\ UNCHANGED nonBatchVars

\* notePage.goto resolved: waitForSelector('#noteContainer') is awaited.
GotoOk(r, w) ==
  /\ wpc[r][w] = "goto"
  /\ wpc' = [wpc EXCEPT ![r][w] = "waitForSelector"]
  /\ UNCHANGED << dom, count, xpc, noteLinks, concurrency, queue, results,
                  notes, noteInfo, index, notePage, note, fate, pulls,
                  pagesOpened, softTimeout, waited >>
  /\ UNCHANGED nonBatchVars

\* A getNoteDetail without its finally block: after a rejected goto the
\* basic record is returned and stored while the page stays open.
GotoFailNoCleanup(r, w) ==
  /\ wpc[r][w] = "goto"
  /\ fate' = [fate EXCEPT ![r][index[r][w]].how = "gotoErr"]
  /\ WorkerStores(r, w, DegradedNote(noteInfo[r][w]))
  /\ UNCHANGED << dom, count, xpc, noteLinks, concurrency, queue, notes,
                  noteInfo, index, notePage, note, pulls, pagesOpened,
                  softTimeout >>
  /\ UNCHANGED nonBatchVars

\* notePage.goto rejected (navigation error or the 30 s timeout): catch
\* builds the basic record, finally awaits notePage.close().
GotoFail(r, w) ==
  /\ wpc[r][w] = "goto"
  /\ note' = [note EXCEPT ![r][w] = DegradedNote(noteInfo[r][w])]
  /\ fate' = [fate EXCEPT ![r][index[r][w]].how = "gotoErr"]
  /\ wpc' = [wpc EXCEPT ![r][w] = "close"]
  /\ UNCHANGED << dom, count, xpc, noteLinks, concurrency, queue, results,
                  notes, noteInfo, index, notePage, pulls, pagesOpened,
                  softTimeout, waited >>
  /\ UNCHANGED nonBatchVars

\* A container wait without its .catch: the timeout reaches the catch block
\* of getNoteDetail.
WaitContainerFatal(r, w) ==
  /\ wpc[r][w] = "waitForSelector"
  /\ \E timedOut \in BOOLEAN :
       /\ softTimeout' = [softTimeout EXCEPT ![r][w] = timedOut]
       /\ IF timedOut
          THEN /\ note' = [note EXCEPT ![r][w] = DegradedNote(noteInfo[r][w])]
               /\ fate' = [fate EXCEPT ![r][index[r][w]].how = "gotoErr"]
               /\ wpc' = [wpc EXCEPT ![r][w] = "close"]
          ELSE /\ wpc' = [wpc EXCEPT ![r][w] = "detailTitle"]
               /\ UNCHANGED << note, fate >>
  /\ UNCHANGED << dom, count, xpc, noteLinks, concurrency, queue, results,
                  notes, noteInfo, index, notePage, pulls, pagesOpened,
                  waited >>
  /\ UNCHANGED nonBatchVars

\* waitForSelector('#noteContainer', 15 s) settled; a rejection is consumed
\* by its .catch.  getNoteDetailData is entered and awaits
\* waitForSelector('#detail-title', 3 s).
WaitContainer(r, w) ==
  /\ wpc[r][w] = "waitForSelector"
  /\ \E timedOut \in BOOLEAN :
       softTimeout' = [softTimeout EXCEPT ![r][w] = timedOut]
  /\ UNCHANGED waited
  /\ wpc' = [wpc EXCEPT ![r][w] = "detailTitle"]
  /\ UNCHANGED << dom, count, xpc, noteLinks, concurrency, queue, results,
                  notes, noteInfo, index, notePage, note, fate, pulls,
                  pagesOpened >>
  /\ UNCHANGED nonBatchVars

\* waitForSelector('#detail-title') settled (a rejection is consumed by its
\* .catch): page.evaluate is awaited.
WaitDetailTitle(r, w) ==
  /\ wpc[r][w] = "detailTitle"
  /\ wpc' = [wpc EXCEPT ![r][w] = "evaluate"]
  /\ UNCHANGED << dom, count, xpc, noteLinks, concurrency, queue, results,
                  notes, noteInfo, index, notePage, note, fate, pulls,
                  pagesOpened, softTimeout, waited >>
  /\ UNCHANGED nonBatchVars

\* page.evaluate resolved with the extracted data: getNoteDetail builds the
\* complete note, finally awaits notePage.close().
EvaluateOk(r, w) ==
  /\ wpc[r][w] = "evaluate"
  /\ \E d \in DetailData :
       note' = [note EXCEPT ![r][w] = FullNote(noteInfo[r][w], d)]
  /\ fate' = [fate EXCEPT ![r][index[r][w]].how = "ok"]
  /\ wpc' = [wpc EXCEPT ![r][w] = "close"]
  /\ UNCHANGED << dom, count, xpc, noteLinks, concurrency, queue, results,
                  notes, noteInfo, index, notePage, pulls, pagesOpened,
                  softTimeout, waited >>
  /\ UNCHANGED nonBatchVars

\* page.evaluate rejected: getNoteDetailData catches and returns its empty
\* object; getNoteDetail builds the note from it, finally awaits close().
EvaluateFail(r, w) ==
  /\ wpc[r][w] = "evaluate"
  /\ note' = [note EXCEPT ![r][w] = FullNote(noteInfo[r][w], EmptyDetail)]
  /\ fate' = [fate EXCEPT ![r][index[r][w]].how = "evalErr"]
  /\ wpc' = [wpc EXCEPT ![r][w] = "close"]
  /\ UNCHANGED << dom, count, xpc, noteLinks, concurrency, queue, results,
                  notes, noteInfo, index, notePage, pulls, pagesOpened,
                  softTimeout, waited >>
  /\ UNCHANGED nonBatchVars

\* notePage.close() settled (a rejection is consumed by its .catch; close
\* rejects only when the target is already gone): getNoteDetail returns the
\* pending note, which the worker stores.  The locals of the finished call
\* (notePage, the pending note) no longer exist.
ClosePage(r, w) ==
  /\ wpc[r][w] = "close"
  /\ notePage' = [notePage EXCEPT ![r][w] = "null"]
  /\ note' = [note EXCEPT ![r][w] = Undefined]
  /\ softTimeout' = [softTimeout EXCEPT ![r][w] = FALSE]
  /\ WorkerStores(r, w, note[r][w])
  /\ UNCHANGED << dom, count, xpc, noteLinks, concurrency, queue, notes,
                  noteInfo, index, fate, pulls, pagesOpened >>
  /\ UNCHANGED nonBatchVars

\* A worker whose loop ends after its first reference, whatever the queue
\* holds.
DelayElapsedStops(r, w) ==
  /\ wpc[r][w] = "delay"
  /\ wpc' = [wpc EXCEPT ![r][w] = "done"]
  /\ UNCHANGED << noteInfo, index, pulls, queue, waited >>
  /\ UNCHANGED << dom, count, xpc, noteLinks, concurrency, results, notes,
                  notePage, note, fate, pagesOpened, softTimeout >>
  /\ UNCHANGED nonBatchVars

\* The 2000 ms timer fired and the loop condition is evaluated: with the
\* queue not empty the worker pulls the next reference and awaits its stagger
\* timer again; with the queue empty its loop ends.
DelayElapsed(r, w) ==
  /\ wpc[r][w] = "delay"
  /\ IF Len(queue[r]) > 0
     THEN /\ noteInfo' = [noteInfo EXCEPT ![r][w] = Head(queue[r])]
          /\ index' = [index EXCEPT ![r][w] =
                         IndexOf(noteLinks[r], Head(queue[r]))]
          /\ pulls' = [pulls EXCEPT ![r] = Append(@, Head(queue[r]).oid)]
          /\ queue' = [queue EXCEPT ![r] = Tail(@)]
          /\ wpc' = [wpc EXCEPT ![r][w] = "stagger"]
          /\ waited' = [waited EXCEPT ![r][w] = @ + DelayMs]
     ELSE /\ wpc' = [wpc EXCEPT ![r][w] = "done"]
          /\ UNCHANGED << noteInfo, index, pulls, queue, waited >>
  /\ UNCHANGED << dom, count, xpc, noteLinks, concurrency, results, notes,
                  notePage, note, fate, pagesOpened, softTimeout >>
  /\ UNCHANGED nonBatchVars

\* Promise.all(workers) resolved: the defined results are returned.
PromiseAll(r) ==
  /\ xpc[r] = "workers"
  /\ \A w \in Workers : wpc[r][w] \in {"none", "done"}
  /\ notes' = [notes EXCEPT ![r] = FilterDefined(results[r])]
  /\ xpc' = [xpc EXCEPT ![r] = "returned"]
  /\ UNCHANGED << dom, count, noteLinks, concurrency, queue, results, wpc,
                  noteInfo, index, notePage, note, fate, pulls, pagesOpened,
                  softTimeout, waited >>
  /\ UNCHANGED nonBatchVars

\* ------------------------------------------------------------ SearchCache

\* const CACHE_EXPIRY_MS = 14 * 24 * 60 * 60 * 1000
CACHE_EXPIRY_MS == 14 * 24 * 60 * 60 * 1000

\* Time is counted in milliseconds from the start of the process: what an
\* earlier run wrote has a negative timestamp.
InitialNow == 0

\* Strings are sequences of characters over this alphabet: an upper-case and
\* a lower-case letter, a blank, the separator of generateKey and a digit.
Alphabet == {"C", "c", " ", ":", "5"}

Whitespace == {" "}

\* String.prototype.toLowerCase
ToLowerCase(s) == [i \in 1 .. Len(s) |-> IF s[i] = "C" THEN "c" ELSE s[i]]

RECURSIVE TrimStart(_)
TrimStart(s) ==
  IF s /= <<>> /\ Head(s) \in Whitespace THEN TrimStart(Tail(s)) ELSE s

RECURSIVE TrimEnd(_)
TrimEnd(s) ==
  IF s /= <<>> /\ s[Len(s)] \in Whitespace
  THEN TrimEnd(SubSeq(s, 1, Len(s) - 1))
  ELSE s

\* String.prototype.trim
Trim(s) == TrimEnd(TrimStart(s))

DecimalDigits == << "0", "1", "2", "3", "4", "5", "6", "7", "8", "9" >>

\* `${count}` for a non-negative integer
RECURSIVE NumberToString(_)
NumberToString(n) ==
  IF n < 10 THEN << DecimalDigits[n + 1] >>
  ELSE NumberToString(n \div 10) \o << DecimalDigits[(n % 10) + 1] >>

\* A key that keeps the letter case of the query.
GenerateKeyCaseSensitive(query, n) ==
  Trim(query) \o << ":" >> \o NumberToString(n)

\* generateKey: `${query.toLowerCase().trim()}:${count}`
GenerateKey(query, n) ==
  Trim(ToLowerCase(query)) \o << ":" >> \o NumberToString(n)

\* A test that also expires the entry whose age equals CACHE_EXPIRY_MS.
IsExpiredAtBoundary(entry, t) == t - entry.timestamp >= CACHE_EXPIRY_MS

\* An expiry test that lets an entry live one time unit longer.
IsExpiredOneLate(entry, t) == t - entry.timestamp > CACHE_EXPIRY_MS + 1

\* isExpired: Date.now() - entry.timestamp > CACHE_EXPIRY_MS
IsExpired(entry, t) == t - entry.timestamp > CACHE_EXPIRY_MS

\* The object {} of `this.cache = {}`.
EmptyStore == [k \in {} |-> TRUE]

\* An assignment that keeps the entry a key already has.
PutIfAbsent(store, key, entry) ==
  [k \in DOMAIN store \cup {key} |->
     IF k \in DOMAIN store THEN store[k] ELSE entry]

\* this.cache[key] = entry
Put(store, key, entry) ==
  [k \in DOMAIN store \cup {key} |-> IF k = key THEN entry ELSE store[k]]

\* A delete that leaves the entry in place.
DeleteNothing(store, key) == store

\* delete this.cache[key]
Delete(store, key) == [k \in DOMAIN store \ {key} |-> store[k]]

\* A sweep that removes nothing.
CleanNothing(store, t) == store

\* The loop of cleanExpiredEntries: the store without its expired entries.
CleanExpiredEntries(store, t) ==
  [k \in {j \in DOMAIN store : ~IsExpired(store[j], t)} |-> store[k]]

\* JSON.stringify leaves out a property whose value is undefined.
JsonNote(n) ==
  IF "authorDesc" \in DOMAIN n /\ n.authorDesc = NoAuthorDesc
  THEN [f \in DOMAIN n \ {"authorDesc"} |-> n[f]]
  ELSE n

\* The JSON text of an array of notes, as the value it parses to.
JsonNotes(data) == [i \in 1 .. Len(data) |-> JsonNote(data[i])]

\* JSON.stringify(this.cache, null, 2), as the value it parses to.
JsonStringify(store) ==
  [k \in DOMAIN store |-> [store[k] EXCEPT !.data = JsonNotes(@)]]

\* The file at CACHE_PATH: missing, not parseable, or the text of a store.
NoFile == [kind |-> "absent"]

CorruptFile == [kind |-> "corrupt"]

JsonFile(text) == [kind |-> "json", store |-> text]

\* The inner try/catch of init: JSON.parse of what readFile gave, or {} when
\* the file is missing or not parseable.
ReadStore(file) == IF file.kind = "json" THEN file.store ELSE EmptyStore

\* get's `return null`
Null == [null |-> TRUE]

\* get's `return entry.data`: an array, which is never equal to null.
Array(data) == [array |-> data]

\* The value of a Promise<void>
Void == [void |-> TRUE]

\* No entry under the key the call addresses.
NoEntry == [absent |-> TRUE]

NoArgs == [op |-> "none", query |-> <<>>, count |-> 0, data |-> <<>>]

NoHist == [target |-> NoEntry, start |-> 0, ioFailed |-> FALSE]

NoCall == [op |-> "none", key |-> << >>, data |-> << >>, at |-> 0,
           ret |-> Void]

\* No SearchCache call was made: the state after the module is loaded, with
\* no cache file.
CacheIdle ==
  /\ cache = EmptyStore
  /\ initialized = FALSE
  /\ cacheFile = NoFile
  /\ now = InitialNow
  /\ cpc = [c \in Reqs |-> "idle"]
  /\ cargs = [c \in Reqs |-> NoArgs]
  /\ cret = [c \in Reqs |-> Void]
  /\ cjson = [c \in Reqs |-> EmptyStore]
  /\ chist = [c \in Reqs |-> NoHist]
  /\ lastCall = NoCall
  /\ written = EmptyStore
  /\ calls = 0
  /\ cleared = FALSE
  /\ inits = 0

\* No checkLoginStatus call was made yet.
NoVerify == [url |-> <<>>, marker |-> "unknown", threw |-> FALSE, ret |-> FALSE]

\* No environment variable of the Worker is set.
NoEnv == [url |-> FALSE, key |-> FALSE]

NoBody == [method |-> "none"]

NoFetch == [settled |-> "none"]

NoReply == [status |-> 0]

\* performSearch has not reached its scroll decision; the page is as short
\* as a page can be.
ScrollIdle ==
  /\ scrollArg = 0
  /\ apc = "idle"
  /\ scrollHeight = 0
  /\ totalHeight = 0
  /\ scrollCount = 0
  /\ lastHeight = 0

\* The Worker has handled no request.
McpIdle ==
  /\ env = NoEnv
  /\ mpc = "idle"
  /\ body = NoBody
  /\ outbound = NoFetch
  /\ reply = NoReply

NoRequest == [query |-> <<>>, count |-> 0]

NoResponse == [status |-> 0]

\* No request is being handled.
HandlerIdle ==
  /\ hpc = [r \in Reqs |-> "idle"]
  /\ hreq = [r \in Reqs |-> NoRequest]
  /\ response = [r \in Reqs |-> NoResponse]
  /\ searches = [r \in Reqs |-> 0]
  /\ McpIdle
  /\ ScrollIdle

\* ------------------------------------------------ the batch specification

\* No search is in progress: the state the module has when it is loaded.
SearchIdle ==
  /\ envCookies = "absent"
  /\ cookieFile = "absent"
  /\ validSessions = {}
  /\ spc = [r \in Reqs |-> "idle"]
  /\ browser = [r \in Reqs |-> "null"]
  /\ ctxCookies = [r \in Reqs |-> "none"]
  /\ pageUrl = [r \in Reqs |-> <<>>]
  /\ cookiesLoaded = [r \in Reqs |-> FALSE]
  /\ isLoggedIn = [r \in Reqs |-> FALSE]
  /\ loginSuccess = [r \in Reqs |-> FALSE]
  /\ pollI = [r \in Reqs |-> 0]
  /\ loginPage = [r \in Reqs |-> FALSE]
  /\ loginDetected = [r \in Reqs |-> FALSE]
  /\ snapshot = [r \in Reqs |-> "none"]
  /\ err = [r \in Reqs |-> "none"]
  /\ decided = [r \in Reqs |-> FALSE]
  /\ loginPath = [r \in Reqs |-> FALSE]
  /\ loginCycles = [r \in Reqs |-> 0]
  /\ polls = [r \in Reqs |-> 0]
  /\ lastVerify = NoVerify

BatchIdle(r) ==
  /\ dom[r] = <<>>
  /\ count[r] = 0
  /\ xpc[r] = "idle"

\* extractNotes has just been called on a listing page with some count.
InitBatch ==
  /\ dom \in [Reqs -> Listings]
  /\ count \in [Reqs -> 0 .. MaxCount]
  /\ xpc \in [Reqs -> {"idle", "links"}]
  /\ xpc[1] = "links"
  /\ \A r \in Reqs \ {1} : BatchIdle(r)
  /\ noteLinks = [r \in Reqs |-> <<>>]
  /\ concurrency = [r \in Reqs |-> 0]
  /\ queue = [r \in Reqs |-> <<>>]
  /\ results = [r \in Reqs |-> <<>>]
  /\ notes = [r \in Reqs |-> <<>>]
  /\ wpc = [r \in Reqs |-> WorkerIdle]
  /\ noteInfo = [r \in Reqs |-> [w \in Workers |-> NoRef]]
  /\ index = [r \in Reqs |-> [w \in Workers |-> 0]]
  /\ notePage = [r \in Reqs |-> [w \in Workers |-> "null"]]
  /\ note = [r \in Reqs |-> [w \in Workers |-> Undefined]]
  /\ fate = [r \in Reqs |-> <<>>]
  /\ pulls = [r \in Reqs |-> <<>>]
  /\ pagesOpened = [r \in Reqs |-> 0]
  /\ softTimeout = [r \in Reqs |-> [w \in Workers |-> FALSE]]
  /\ waited = [r \in Reqs |-> [w \in Workers |-> 0]]
  /\ SearchIdle
  /\ CacheIdle
  /\ HandlerIdle

NextBatch ==
  \E r \in Reqs :
    \/ ExtractNotesEmpty(r)
    \/ ExtractNotesStart(r)
    \/ PromiseAll(r)
    \/ \E w \in Workers :
         \/ StaggerElapsed(r, w)
         \/ NewPageOk(r, w)
         \/ NewPageFail(r, w)
         \/ GotoOk(r, w)
         \/ GotoFail(r, w)
         \/ WaitContainer(r, w)
         \/ WaitDetailTitle(r, w)
         \/ EvaluateOk(r, w)
         \/ EvaluateFail(r, w)
         \/ ClosePage(r, w)
         \/ DelayElapsed(r, w)

SpecBatch == InitBatch /\ [][NextBatch]_vars


\* ------------------------------------------------- the site and the session

\* for (let i = 0; i < 150; i++)
LoginPolls == 150

\* if (count > 6) await autoScroll(page)
ScrollThreshold == 6

\* The path of the URL a page shows, as its characters.
UrlExplore == << "e", "x", "p", "l", "o", "r", "e" >>

UrlLogin == << "l", "o", "g", "i", "n" >>

UrlSignin == << "s", "i", "g", "n", "i", "n" >>

UrlSearch == << "s", "e", "a", "r", "c", "h", "_", "r", "e", "s", "u", "l", "t" >>

\* s.includes(sub)
Includes(s, sub) ==
  \E k \in 0 .. (Len(s) - Len(sub)) :
    \A j \in 1 .. Len(sub) : s[k + j] = sub[j]

\* currentUrl.includes('login') || currentUrl.includes('sign')
UrlIndicatesLogin(url) ==
  \/ Includes(url, << "l", "o", "g", "i", "n" >>)
  \/ Includes(url, << "s", "i", "g", "n" >>)

\* A checkLoginStatus whose catch block reports a logged-in session.
CheckLoginStatusCatchTrue(url, found, threw) ==
  IF UrlIndicatesLogin(url) THEN FALSE
  ELSE IF threw THEN TRUE
  ELSE ~found

\* checkLoginStatus: `found` is whether page.$ matched .login-container,
\* `threw` whether inspecting the page raised.
CheckLoginStatus(url, found, threw) ==
  IF UrlIndicatesLogin(url) THEN FALSE
  ELSE IF threw THEN FALSE
  ELSE ~found

\* What one checkLoginStatus call saw and returned.  The marker is unknown
\* when page.$ was not called (the URL decided) or raised.
VerifyRecord(url, found, threw) ==
  [url |-> url,
   marker |-> IF UrlIndicatesLogin(url) \/ threw THEN "unknown"
              ELSE IF found THEN "present" ELSE "absent",
   threw |-> ~UrlIndicatesLogin(url) /\ threw,
   ret |-> CheckLoginStatus(url, found, threw)]

\* The site accepts the cookie set as a logged-in session.  A session
\* obtained by the interactive login is accepted.
SessionValid(c, valid) == c = "loginSession" \/ c \in valid

\* Where the site leaves a visitor of /explore: a logged-in visitor stays, any
\* other may be sent to the login or the sign-in page.
SiteUrls(c, valid) ==
  IF SessionValid(c, valid) THEN {UrlExplore}
  ELSE {UrlExplore, UrlLogin, UrlSignin}

\* Whether .login-container is in the page when it is inspected: never for a
\* logged-in visitor; for any other it may not have been rendered yet.
SiteMarker(c, valid) ==
  IF SessionValid(c, valid) THEN {FALSE} ELSE {TRUE, FALSE}

\* A decision that asks for a login only when both indicators are negative.
NeedsLoginBoth(loggedIn, loaded) == ~loggedIn /\ ~loaded

\* if (!isLoggedIn || !cookiesLoaded)
NeedsLogin(loggedIn, loaded) == ~loggedIn \/ ~loaded

\* A catch that rethrows with no finally block behind it.
ThrowNoFinally(r, e) ==
  /\ err' = [err EXCEPT ![r] = e]
  /\ spc' = [spc EXCEPT ![r] = "threw"]

\* An exception reaches the catch of searchXiaohongshu, which rethrows it;
\* finally awaits browser.close() when `browser` is set.
Throw(r, e) ==
  /\ err' = [err EXCEPT ![r] = e]
  /\ spc' = [spc EXCEPT ![r] =
               IF browser[r] = "null" THEN "threw" ELSE "finalClose"]

\* A loadCookies that reads the cookie file first when there is one.
LoadCookiesCallFileFirst(r) ==
  IF cookieFile \notin {"absent", "malformed"} \/ envCookies = "absent"
  THEN /\ spc' = [spc EXCEPT ![r] = "readCookieFile"]
       /\ UNCHANGED err
  ELSE IF envCookies = "malformed"
  THEN Throw(r, "cookiesEnv")
  ELSE /\ spc' = [spc EXCEPT ![r] = "addCookiesEnv"]
       /\ UNCHANGED err

\* loadCookies up to its first await: the environment branch when COOKIES is
\* set (JSON.parse throws on a malformed value), else fs.readFile.
LoadCookiesCall(r) ==
  IF envCookies = "absent"
  THEN /\ spc' = [spc EXCEPT ![r] = "readCookieFile"]
       /\ UNCHANGED err
  ELSE IF envCookies = "malformed"
  THEN Throw(r, "cookiesEnv")
  ELSE /\ spc' = [spc EXCEPT ![r] = "addCookiesEnv"]
       /\ UNCHANGED err

\* loadCookies returned `loaded`.  The first call's value becomes
\* cookiesLoaded and page.goto(explore) is awaited; the value of the call
\* after a login is discarded and performSearch awaits page.goto.
LoadCookiesReturn(r, loaded) ==
  IF loginPath[r]
  THEN /\ spc' = [spc EXCEPT ![r] = "gotoSearch"]
       /\ UNCHANGED cookiesLoaded
  ELSE /\ spc' = [spc EXCEPT ![r] = "gotoExplore"]
       /\ cookiesLoaded' = [cookiesLoaded EXCEPT ![r] = loaded]

\* The login decision with isLoggedIn = v: the manual-login branch awaits
\* browser.close(), the other goes on to performSearch.
Decide(r, v) ==
  /\ decided' = [decided EXCEPT ![r] = TRUE]
  /\ IF NeedsLogin(v, cookiesLoaded[r])
     THEN /\ loginPath' = [loginPath EXCEPT ![r] = TRUE]
          /\ spc' = [spc EXCEPT ![r] = "closeHeadless"]
     ELSE /\ spc' = [spc EXCEPT ![r] = "gotoSearch"]
          /\ UNCHANGED loginPath

\* A loop that runs while i <= 150.
PollResultOneMore(r, v) ==
  IF v
  THEN /\ loginDetected' = [loginDetected EXCEPT ![r] = TRUE]
       /\ spc' = [spc EXCEPT ![r] = "loginCookies"]
       /\ UNCHANGED pollI
  ELSE /\ pollI' = [pollI EXCEPT ![r] = @ + 1]
       /\ spc' = [spc EXCEPT ![r] =
                    IF pollI[r] + 1 <= LoginPolls THEN "loginPollWait"
                    ELSE "loginClosePage"]
       /\ UNCHANGED loginDetected

\* One iteration of handleLogin's loop got isLoggedIn = v: break and save the
\* cookies, or i++ and either wait again or leave the loop and return false.
PollResult(r, v) ==
  IF v
  THEN /\ loginDetected' = [loginDetected EXCEPT ![r] = TRUE]
       /\ spc' = [spc EXCEPT ![r] = "loginCookies"]
       /\ UNCHANGED pollI
  ELSE /\ pollI' = [pollI EXCEPT ![r] = @ + 1]
       /\ spc' = [spc EXCEPT ![r] =
                    IF pollI[r] + 1 < LoginPolls THEN "loginPollWait"
                    ELSE "loginClosePage"]
       /\ UNCHANGED loginDetected

\* extractNotes(page, count, context) is called and awaits extractNoteLinks.
CallExtractNotes(r) ==
  /\ spc' = [spc EXCEPT ![r] = "extractNotes"]
  /\ xpc' = [xpc EXCEPT ![r] = "links"]

\* performSearch after the feeds wait: scroll when count > 6, else return.
AfterFeeds(r) ==
  IF count[r] > ScrollThreshold
  THEN /\ spc' = [spc EXCEPT ![r] = "scroll"]
       /\ UNCHANGED xpc
  ELSE CallExtractNotes(r)

\* ------------------------------------------------------ searchXiaohongshu

\* chromium.launch({ headless: true }) resolved (the first launch, or the one
\* that resumes after a successful login): browser.newContext is awaited.
LaunchOk(r) ==
  /\ spc[r] = "launch"
  /\ browser' = [browser EXCEPT ![r] = "headless"]
  /\ spc' = [spc EXCEPT ![r] = "newContext"]
  /\ UNCHANGED << envCookies, cookieFile, validSessions, ctxCookies,
                  pageUrl, cookiesLoaded, isLoggedIn, loginSuccess, pollI,
                  loginPage, loginDetected, snapshot, err, decided,
                  loginPath, loginCycles, polls >>
  /\ UNCHANGED nonSearchVars
  /\ UNCHANGED lastVerify

\* chromium.launch rejected: catch rethrows, finally closes `browser` if set.
LaunchFail(r) ==
  /\ spc[r] = "launch"
  /\ Throw(r, "launch")
  /\ UNCHANGED << envCookies, cookieFile, validSessions, browser,
                  ctxCookies, pageUrl, cookiesLoaded, isLoggedIn,
                  loginSuccess, pollI, loginPage, loginDetected, snapshot,
                  decided, loginPath, loginCycles, polls >>
  /\ UNCHANGED nonSearchVars
  /\ UNCHANGED lastVerify

\* browser.newContext resolved with a context holding no cookie.
NewContextOk(r) ==
  /\ spc[r] = "newContext"
  /\ ctxCookies' = [ctxCookies EXCEPT ![r] = "none"]
  /\ spc' = [spc EXCEPT ![r] = "newPage"]
  /\ UNCHANGED << envCookies, cookieFile, validSessions, browser, pageUrl,
                  cookiesLoaded, isLoggedIn, loginSuccess, pollI,
                  loginPage, loginDetected, snapshot, err, decided,
                  loginPath, loginCycles, polls >>
  /\ UNCHANGED nonSearchVars
  /\ UNCHANGED lastVerify

\* browser.newContext rejected.
NewContextFail(r) ==
  /\ spc[r] = "newContext"
  /\ Throw(r, "newContext")
  /\ UNCHANGED << envCookies, cookieFile, validSessions, browser,
                  ctxCookies, pageUrl, cookiesLoaded, isLoggedIn,
                  loginSuccess, pollI, loginPage, loginDetected, snapshot,
                  decided, loginPath, loginCycles, polls >>
  /\ UNCHANGED nonSearchVars
  /\ UNCHANGED lastVerify

\* context.newPage resolved: loadCookies(context) is called.
SearchNewPageOk(r) ==
  /\ spc[r] = "newPage"
  /\ pageUrl' = [pageUrl EXCEPT ![r] = <<>>]
  /\ LoadCookiesCall(r)
  /\ UNCHANGED << envCookies, cookieFile, validSessions, browser,
                  ctxCookies, cookiesLoaded, isLoggedIn, loginSuccess,
                  pollI, loginPage, loginDetected, snapshot, decided,
                  loginPath, loginCycles, polls >>
  /\ UNCHANGED nonSearchVars
  /\ UNCHANGED lastVerify

\* context.newPage rejected.
SearchNewPageFail(r) ==
  /\ spc[r] = "newPage"
  /\ Throw(r, "newPage")
  /\ UNCHANGED << envCookies, cookieFile, validSessions, browser,
                  ctxCookies, pageUrl, cookiesLoaded, isLoggedIn,
                  loginSuccess, pollI, loginPage, loginDetected, snapshot,
                  decided, loginPath, loginCycles, polls >>
  /\ UNCHANGED nonSearchVars
  /\ UNCHANGED lastVerify

\* context.addCookies(cookies from COOKIES) resolved: loadCookies returns true.
AddCookiesEnvOk(r) ==
  /\ spc[r] = "addCookiesEnv"
  /\ ctxCookies' = [ctxCookies EXCEPT ![r] = envCookies]
  /\ LoadCookiesReturn(r, TRUE)
  /\ UNCHANGED << envCookies, cookieFile, validSessions, browser, pageUrl,
                  isLoggedIn, loginSuccess, pollI, loginPage,
                  loginDetected, snapshot, err, decided, loginPath,
                  loginCycles, polls >>
  /\ UNCHANGED nonSearchVars
  /\ UNCHANGED lastVerify

\* context.addCookies rejected in the environment branch: loadCookies throws.
AddCookiesEnvFail(r) ==
  /\ spc[r] = "addCookiesEnv"
  /\ Throw(r, "cookiesEnv")
  /\ UNCHANGED << envCookies, cookieFile, validSessions, browser,
                  ctxCookies, pageUrl, cookiesLoaded, isLoggedIn,
                  loginSuccess, pollI, loginPage, loginDetected, snapshot,
                  decided, loginPath, loginCycles, polls >>
  /\ UNCHANGED nonSearchVars
  /\ UNCHANGED lastVerify

\* fs.readFile(COOKIES_PATH) resolved with parseable JSON: addCookies is awaited.
ReadCookieFileOk(r) ==
  /\ spc[r] = "readCookieFile"
  /\ cookieFile \notin {"absent", "malformed"}
  /\ snapshot' = [snapshot EXCEPT ![r] = cookieFile]
  /\ spc' = [spc EXCEPT ![r] = "addCookiesFile"]
  /\ UNCHANGED << envCookies, cookieFile, validSessions, browser,
                  ctxCookies, pageUrl, cookiesLoaded, isLoggedIn,
                  loginSuccess, pollI, loginPage, loginDetected, err,
                  decided, loginPath, loginCycles, polls >>
  /\ UNCHANGED nonSearchVars
  /\ UNCHANGED lastVerify

\* A file branch whose catch block reports the cookies as loaded.
ReadCookieFileFailLoaded(r) ==
  /\ spc[r] = "readCookieFile"
  /\ LoadCookiesReturn(r, TRUE)
  /\ UNCHANGED << envCookies, cookieFile, validSessions, browser,
                  ctxCookies, pageUrl, isLoggedIn, loginSuccess, pollI,
                  loginPage, loginDetected, snapshot, err, decided,
                  loginPath, loginCycles, polls, lastVerify >>
  /\ UNCHANGED nonSearchVars

\* fs.readFile rejected, or JSON.parse threw on the content: loadCookies
\* returns false.
ReadCookieFileFail(r) ==
  /\ spc[r] = "readCookieFile"
  /\ LoadCookiesReturn(r, FALSE)
  /\ UNCHANGED << envCookies, cookieFile, validSessions, browser,
                  ctxCookies, pageUrl, isLoggedIn, loginSuccess, pollI,
                  loginPage, loginDetected, snapshot, err, decided,
                  loginPath, loginCycles, polls >>
  /\ UNCHANGED nonSearchVars
  /\ UNCHANGED lastVerify

\* context.addCookies(cookies from the file) resolved: loadCookies returns true.
AddCookiesFileOk(r) ==
  /\ spc[r] = "addCookiesFile"
  /\ ctxCookies' = [ctxCookies EXCEPT ![r] = snapshot[r]]
  /\ snapshot' = [snapshot EXCEPT ![r] = "none"]
  /\ LoadCookiesReturn(r, TRUE)
  /\ UNCHANGED << envCookies, cookieFile, validSessions, browser, pageUrl,
                  isLoggedIn, loginSuccess, pollI, loginPage,
                  loginDetected, err, decided, loginPath, loginCycles,
                  polls >>
  /\ UNCHANGED nonSearchVars
  /\ UNCHANGED lastVerify

\* context.addCookies rejected in the file branch: loadCookies returns false.
AddCookiesFileFail(r) ==
  /\ spc[r] = "addCookiesFile"
  /\ snapshot' = [snapshot EXCEPT ![r] = "none"]
  /\ LoadCookiesReturn(r, FALSE)
  /\ UNCHANGED << envCookies, cookieFile, validSessions, browser,
                  ctxCookies, pageUrl, isLoggedIn, loginSuccess, pollI,
                  loginPage, loginDetected, err, decided, loginPath,
                  loginCycles, polls >>
  /\ UNCHANGED nonSearchVars
  /\ UNCHANGED lastVerify

\* page.goto(explore) resolved; checkLoginStatus reads page.url() and either
\* returns false at once or awaits page.$(".login-container").
GotoExploreOk(r) ==
  /\ spc[r] = "gotoExplore"
  /\ \E url \in SiteUrls(ctxCookies[r], validSessions) :
       /\ pageUrl' = [pageUrl EXCEPT ![r] = url]
       /\ IF UrlIndicatesLogin(url)
          THEN /\ isLoggedIn' = [isLoggedIn EXCEPT ![r] = FALSE]
               /\ lastVerify' = VerifyRecord(url, FALSE, FALSE)
               /\ Decide(r, FALSE)
          ELSE /\ spc' = [spc EXCEPT ![r] = "probe"]
               /\ UNCHANGED << isLoggedIn, decided, loginPath, lastVerify >>
  /\ UNCHANGED << envCookies, cookieFile, validSessions, browser,
                  ctxCookies, cookiesLoaded, loginSuccess, pollI,
                  loginPage, loginDetected, snapshot, err, loginCycles,
                  polls >>
  /\ UNCHANGED nonSearchVars

\* page.goto(explore) rejected (navigation error or the 30 s timeout).
GotoExploreFail(r) ==
  /\ spc[r] = "gotoExplore"
  /\ Throw(r, "gotoExplore")
  /\ UNCHANGED << envCookies, cookieFile, validSessions, browser,
                  ctxCookies, pageUrl, cookiesLoaded, isLoggedIn,
                  loginSuccess, pollI, loginPage, loginDetected, snapshot,
                  decided, loginPath, loginCycles, polls >>
  /\ UNCHANGED nonSearchVars
  /\ UNCHANGED lastVerify

\* page.$(".login-container") settled: checkLoginStatus returns and the login
\* decision is taken.
ProbeSettle(r) ==
  /\ spc[r] = "probe"
  /\ \E found \in SiteMarker(ctxCookies[r], validSessions), threw \in BOOLEAN :
       LET v == CheckLoginStatus(pageUrl[r], found, threw) IN
         /\ isLoggedIn' = [isLoggedIn EXCEPT ![r] = v]
         /\ lastVerify' = VerifyRecord(pageUrl[r], found, threw)
         /\ Decide(r, v)
  /\ UNCHANGED << envCookies, cookieFile, validSessions, browser,
                  ctxCookies, pageUrl, cookiesLoaded, loginSuccess, pollI,
                  loginPage, loginDetected, snapshot, err, loginCycles,
                  polls >>
  /\ UNCHANGED nonSearchVars

\* browser.close() of the headless browser resolved: the headful launch is
\* awaited.
CloseHeadlessOk(r) ==
  /\ spc[r] = "closeHeadless"
  /\ browser' = [browser EXCEPT ![r] = "closed"]
  /\ spc' = [spc EXCEPT ![r] = "launchHeadful"]
  /\ UNCHANGED << envCookies, cookieFile, validSessions, ctxCookies,
                  pageUrl, cookiesLoaded, isLoggedIn, loginSuccess, pollI,
                  loginPage, loginDetected, snapshot, err, decided,
                  loginPath, loginCycles, polls >>
  /\ UNCHANGED nonSearchVars
  /\ UNCHANGED lastVerify

\* browser.close() of the headless browser rejected.
CloseHeadlessFail(r) ==
  /\ spc[r] = "closeHeadless"
  /\ Throw(r, "browserClose")
  /\ UNCHANGED << envCookies, cookieFile, validSessions, browser,
                  ctxCookies, pageUrl, cookiesLoaded, isLoggedIn,
                  loginSuccess, pollI, loginPage, loginDetected, snapshot,
                  decided, loginPath, loginCycles, polls >>
  /\ UNCHANGED nonSearchVars
  /\ UNCHANGED lastVerify

\* chromium.launch({ headless: false }) resolved: handleLogin(browser) is
\* called and awaits browser.newContext.
LaunchHeadfulOk(r) ==
  /\ spc[r] = "launchHeadful"
  /\ browser' = [browser EXCEPT ![r] = "headful"]
  /\ loginCycles' = [loginCycles EXCEPT ![r] = @ + 1]
  /\ loginDetected' = [loginDetected EXCEPT ![r] = FALSE]
  /\ loginPage' = [loginPage EXCEPT ![r] = FALSE]
  /\ pollI' = [pollI EXCEPT ![r] = 0]
  /\ spc' = [spc EXCEPT ![r] = "loginNewContext"]
  /\ UNCHANGED << envCookies, cookieFile, validSessions, ctxCookies,
                  pageUrl, cookiesLoaded, isLoggedIn, loginSuccess,
                  snapshot, err, decided, loginPath, polls >>
  /\ UNCHANGED nonSearchVars
  /\ UNCHANGED lastVerify

\* chromium.launch({ headless: false }) rejected.
LaunchHeadfulFail(r) ==
  /\ spc[r] = "launchHeadful"
  /\ Throw(r, "launch")
  /\ UNCHANGED << envCookies, cookieFile, validSessions, browser,
                  ctxCookies, pageUrl, cookiesLoaded, isLoggedIn,
                  loginSuccess, pollI, loginPage, loginDetected, snapshot,
                  decided, loginPath, loginCycles, polls >>
  /\ UNCHANGED nonSearchVars
  /\ UNCHANGED lastVerify


\* ------------------------------------------------------------ handleLogin

\* handleLogin: browser.newContext resolved with a fresh context; newPage is
\* awaited inside the try block.
LoginNewContextOk(r) ==
  /\ spc[r] = "loginNewContext"
  /\ ctxCookies' = [ctxCookies EXCEPT ![r] = "none"]
  /\ spc' = [spc EXCEPT ![r] = "loginNewPage"]
  /\ UNCHANGED << envCookies, cookieFile, validSessions, browser, pageUrl,
                  cookiesLoaded, isLoggedIn, loginSuccess, pollI,
                  loginPage, loginDetected, snapshot, err, decided,
                  loginPath, loginCycles, polls >>
  /\ UNCHANGED nonSearchVars
  /\ UNCHANGED lastVerify

\* handleLogin: browser.newContext rejected before the try block: the
\* exception leaves handleLogin.
LoginNewContextFail(r) ==
  /\ spc[r] = "loginNewContext"
  /\ Throw(r, "newContext")
  /\ UNCHANGED << envCookies, cookieFile, validSessions, browser,
                  ctxCookies, pageUrl, cookiesLoaded, isLoggedIn,
                  loginSuccess, pollI, loginPage, loginDetected, snapshot,
                  decided, loginPath, loginCycles, polls >>
  /\ UNCHANGED nonSearchVars
  /\ UNCHANGED lastVerify

\* handleLogin: context.newPage resolved; page.goto(explore) is awaited.
LoginNewPageOk(r) ==
  /\ spc[r] = "loginNewPage"
  /\ loginPage' = [loginPage EXCEPT ![r] = TRUE]
  /\ spc' = [spc EXCEPT ![r] = "loginGoto"]
  /\ UNCHANGED << envCookies, cookieFile, validSessions, browser,
                  ctxCookies, pageUrl, cookiesLoaded, isLoggedIn,
                  loginSuccess, pollI, loginDetected, snapshot, err,
                  decided, loginPath, loginCycles, polls >>
  /\ UNCHANGED nonSearchVars
  /\ UNCHANGED lastVerify

\* handleLogin: context.newPage rejected: catch returns false, finally has no
\* page to close and awaits context.close().
LoginNewPageFail(r) ==
  /\ spc[r] = "loginNewPage"
  /\ spc' = [spc EXCEPT ![r] = "loginCloseContext"]
  /\ UNCHANGED << envCookies, cookieFile, validSessions, browser,
                  ctxCookies, pageUrl, cookiesLoaded, isLoggedIn,
                  loginSuccess, pollI, loginPage, loginDetected, snapshot,
                  err, decided, loginPath, loginCycles, polls >>
  /\ UNCHANGED nonSearchVars
  /\ UNCHANGED lastVerify

\* handleLogin: page.goto(explore) resolved; waitForTimeout(5000) is awaited.
LoginGotoOk(r) ==
  /\ spc[r] = "loginGoto"
  /\ \E url \in SiteUrls(ctxCookies[r], validSessions) :
       pageUrl' = [pageUrl EXCEPT ![r] = url]
  /\ spc' = [spc EXCEPT ![r] = "loginSettle"]
  /\ UNCHANGED << envCookies, cookieFile, validSessions, browser,
                  ctxCookies, cookiesLoaded, isLoggedIn, loginSuccess,
                  pollI, loginPage, loginDetected, snapshot, err, decided,
                  loginPath, loginCycles, polls >>
  /\ UNCHANGED nonSearchVars
  /\ UNCHANGED lastVerify

\* handleLogin: page.goto rejected: catch returns false, finally awaits
\* page.close().
LoginGotoFail(r) ==
  /\ spc[r] = "loginGoto"
  /\ spc' = [spc EXCEPT ![r] = "loginClosePage"]
  /\ UNCHANGED << envCookies, cookieFile, validSessions, browser,
                  ctxCookies, pageUrl, cookiesLoaded, isLoggedIn,
                  loginSuccess, pollI, loginPage, loginDetected, snapshot,
                  err, decided, loginPath, loginCycles, polls >>
  /\ UNCHANGED nonSearchVars
  /\ UNCHANGED lastVerify

\* handleLogin: the 5000 ms wait ended; the loop starts with i = 0 and awaits
\* its 2000 ms timer.
LoginSettled(r) ==
  /\ spc[r] = "loginSettle"
  /\ spc' = [spc EXCEPT ![r] = "loginPollWait"]
  /\ UNCHANGED << envCookies, cookieFile, validSessions, browser,
                  ctxCookies, pageUrl, cookiesLoaded, isLoggedIn,
                  loginSuccess, pollI, loginPage, loginDetected, snapshot,
                  err, decided, loginPath, loginCycles, polls >>
  /\ UNCHANGED nonSearchVars
  /\ UNCHANGED lastVerify

\* The user completes the login in the visible browser: the context receives
\* a session the site accepts and the page leaves the login view.
UserLogsIn(r) ==
  /\ spc[r] \in {"loginSettle", "loginPollWait", "loginPoll"}
  /\ ctxCookies[r] = "none"
  /\ ctxCookies' = [ctxCookies EXCEPT ![r] = "loginSession"]
  /\ pageUrl' = [pageUrl EXCEPT ![r] = UrlExplore]
  /\ UNCHANGED << envCookies, cookieFile, validSessions, spc, browser,
                  cookiesLoaded, isLoggedIn, loginSuccess, pollI,
                  loginPage, loginDetected, snapshot, err, decided,
                  loginPath, loginCycles, polls >>
  /\ UNCHANGED nonSearchVars
  /\ UNCHANGED lastVerify

\* handleLogin: the 2000 ms timer fired; checkLoginStatus reads page.url() and
\* either returns false at once or awaits page.$(".login-container").
PollTimer(r) ==
  /\ spc[r] = "loginPollWait"
  /\ polls' = [polls EXCEPT ![r] = @ + 1]
  /\ IF UrlIndicatesLogin(pageUrl[r])
     THEN /\ PollResult(r, FALSE)
          /\ lastVerify' = VerifyRecord(pageUrl[r], FALSE, FALSE)
     ELSE /\ spc' = [spc EXCEPT ![r] = "loginPoll"]
          /\ UNCHANGED << loginDetected, pollI, lastVerify >>
  /\ UNCHANGED << envCookies, cookieFile, validSessions, browser,
                  ctxCookies, pageUrl, cookiesLoaded, isLoggedIn,
                  loginSuccess, loginPage, snapshot, err, decided,
                  loginPath, loginCycles >>
  /\ UNCHANGED nonSearchVars

\* handleLogin: page.$ settled and checkLoginStatus returned.
PollSettle(r) ==
  /\ spc[r] = "loginPoll"
  /\ \E found \in SiteMarker(ctxCookies[r], validSessions), threw \in BOOLEAN :
       /\ PollResult(r, CheckLoginStatus(pageUrl[r], found, threw))
       /\ lastVerify' = VerifyRecord(pageUrl[r], found, threw)
  /\ UNCHANGED << envCookies, cookieFile, validSessions, browser,
                  ctxCookies, pageUrl, cookiesLoaded, isLoggedIn,
                  loginSuccess, loginPage, snapshot, err, decided,
                  loginPath, loginCycles, polls >>
  /\ UNCHANGED nonSearchVars

\* handleLogin / saveCookies: context.cookies() resolved; mkdir and writeFile
\* are awaited.
LoginCookiesOk(r) ==
  /\ spc[r] = "loginCookies"
  /\ snapshot' = [snapshot EXCEPT ![r] = ctxCookies[r]]
  /\ spc' = [spc EXCEPT ![r] = "loginWrite"]
  /\ UNCHANGED << envCookies, cookieFile, validSessions, browser,
                  ctxCookies, pageUrl, cookiesLoaded, isLoggedIn,
                  loginSuccess, pollI, loginPage, loginDetected, err,
                  decided, loginPath, loginCycles, polls >>
  /\ UNCHANGED nonSearchVars
  /\ UNCHANGED lastVerify

\* handleLogin / saveCookies: context.cookies() rejected: logged; handleLogin
\* returns true, finally awaits page.close().
LoginCookiesFail(r) ==
  /\ spc[r] = "loginCookies"
  /\ spc' = [spc EXCEPT ![r] = "loginClosePage"]
  /\ UNCHANGED << envCookies, cookieFile, validSessions, browser,
                  ctxCookies, pageUrl, cookiesLoaded, isLoggedIn,
                  loginSuccess, pollI, loginPage, loginDetected, snapshot,
                  err, decided, loginPath, loginCycles, polls >>
  /\ UNCHANGED nonSearchVars
  /\ UNCHANGED lastVerify

\* handleLogin / saveCookies: the cookie file was written.
LoginWriteOk(r) ==
  /\ spc[r] = "loginWrite"
  /\ cookieFile' = snapshot[r]
  /\ snapshot' = [snapshot EXCEPT ![r] = "none"]
  /\ spc' = [spc EXCEPT ![r] = "loginClosePage"]
  /\ UNCHANGED << envCookies, validSessions, browser, ctxCookies, pageUrl,
                  cookiesLoaded, isLoggedIn, loginSuccess, pollI,
                  loginPage, loginDetected, err, decided, loginPath,
                  loginCycles, polls >>
  /\ UNCHANGED nonSearchVars
  /\ UNCHANGED lastVerify

\* A saveCookies without its catch inside handleLogin: the rejection reaches
\* the catch of handleLogin, which returns false.
LoginWriteFailFatal(r) ==
  /\ spc[r] = "loginWrite"
  /\ snapshot' = [snapshot EXCEPT ![r] = "none"]
  /\ loginDetected' = [loginDetected EXCEPT ![r] = FALSE]
  /\ spc' = [spc EXCEPT ![r] = "loginClosePage"]
  /\ UNCHANGED << envCookies, cookieFile, validSessions, browser,
                  ctxCookies, pageUrl, cookiesLoaded, isLoggedIn,
                  loginSuccess, pollI, loginPage, err,
                  decided, loginPath, loginCycles, polls >>
  /\ UNCHANGED nonSearchVars
  /\ UNCHANGED lastVerify

\* handleLogin / saveCookies: mkdir or writeFile rejected: logged only.
LoginWriteFail(r) ==
  /\ spc[r] = "loginWrite"
  /\ snapshot' = [snapshot EXCEPT ![r] = "none"]
  /\ spc' = [spc EXCEPT ![r] = "loginClosePage"]
  /\ UNCHANGED << envCookies, cookieFile, validSessions, browser,
                  ctxCookies, pageUrl, cookiesLoaded, isLoggedIn,
                  loginSuccess, pollI, loginPage, loginDetected, err,
                  decided, loginPath, loginCycles, polls >>
  /\ UNCHANGED nonSearchVars
  /\ UNCHANGED lastVerify

\* handleLogin finally: page.close() resolved; context.close() is awaited.
LoginClosePageOk(r) ==
  /\ spc[r] = "loginClosePage"
  /\ spc' = [spc EXCEPT ![r] = "loginCloseContext"]
  /\ UNCHANGED << envCookies, cookieFile, validSessions, browser,
                  ctxCookies, pageUrl, cookiesLoaded, isLoggedIn,
                  loginSuccess, pollI, loginPage, loginDetected, snapshot,
                  err, decided, loginPath, loginCycles, polls >>
  /\ UNCHANGED nonSearchVars
  /\ UNCHANGED lastVerify

\* handleLogin finally: page.close() rejected: the exception leaves
\* handleLogin.
LoginClosePageFail(r) ==
  /\ spc[r] = "loginClosePage"
  /\ Throw(r, "loginCleanup")
  /\ pollI' = [pollI EXCEPT ![r] = 0]
  /\ polls' = [polls EXCEPT ![r] = 0]
  /\ UNCHANGED << envCookies, cookieFile, validSessions, browser,
                  ctxCookies, pageUrl, cookiesLoaded, isLoggedIn,
                  loginSuccess, loginPage, loginDetected, snapshot,
                  decided, loginPath, loginCycles >>
  /\ UNCHANGED nonSearchVars
  /\ UNCHANGED lastVerify

\* handleLogin finally: context.close() resolved: handleLogin returns
\* isLoggedIn and searchXiaohongshu awaits browser.close().
LoginCloseContextOk(r) ==
  /\ spc[r] = "loginCloseContext"
  /\ loginSuccess' = [loginSuccess EXCEPT ![r] = loginDetected[r]]
  /\ pollI' = [pollI EXCEPT ![r] = 0]
  /\ polls' = [polls EXCEPT ![r] = 0]
  /\ spc' = [spc EXCEPT ![r] = "closeHeadful"]
  /\ UNCHANGED << envCookies, cookieFile, validSessions, browser,
                  ctxCookies, pageUrl, cookiesLoaded, isLoggedIn,
                  loginPage, loginDetected, snapshot, err, decided,
                  loginPath, loginCycles >>
  /\ UNCHANGED nonSearchVars
  /\ UNCHANGED lastVerify

\* handleLogin finally: context.close() rejected: the exception leaves
\* handleLogin.
LoginCloseContextFail(r) ==
  /\ spc[r] = "loginCloseContext"
  /\ Throw(r, "loginCleanup")
  /\ pollI' = [pollI EXCEPT ![r] = 0]
  /\ polls' = [polls EXCEPT ![r] = 0]
  /\ UNCHANGED << envCookies, cookieFile, validSessions, browser,
                  ctxCookies, pageUrl, cookiesLoaded, isLoggedIn,
                  loginSuccess, loginPage, loginDetected, snapshot,
                  decided, loginPath, loginCycles >>
  /\ UNCHANGED nonSearchVars
  /\ UNCHANGED lastVerify

\* A search that relaunches the browser whatever handleLogin returned.
CloseHeadfulOkResumes(r) ==
  /\ spc[r] = "closeHeadful"
  /\ browser' = [browser EXCEPT ![r] = "closed"]
  /\ spc' = [spc EXCEPT ![r] = "launch"]
  /\ UNCHANGED << envCookies, cookieFile, validSessions, ctxCookies,
                  pageUrl, cookiesLoaded, isLoggedIn, loginSuccess, pollI,
                  loginPage, loginDetected, snapshot, err, decided,
                  loginPath, loginCycles, polls, lastVerify >>
  /\ UNCHANGED nonSearchVars

\* browser.close() of the headful browser resolved: a failed login throws,
\* a successful one relaunches headless.
CloseHeadfulOk(r) ==
  /\ spc[r] = "closeHeadful"
  /\ browser' = [browser EXCEPT ![r] = "closed"]
  /\ IF loginSuccess[r]
     THEN /\ spc' = [spc EXCEPT ![r] = "launch"]
          /\ UNCHANGED err
     ELSE Throw(r, "loginFailed")
  /\ UNCHANGED << envCookies, cookieFile, validSessions, ctxCookies,
                  pageUrl, cookiesLoaded, isLoggedIn, loginSuccess, pollI,
                  loginPage, loginDetected, snapshot, decided, loginPath,
                  loginCycles, polls >>
  /\ UNCHANGED nonSearchVars
  /\ UNCHANGED lastVerify

\* browser.close() of the headful browser rejected.
CloseHeadfulFail(r) ==
  /\ spc[r] = "closeHeadful"
  /\ Throw(r, "browserClose")
  /\ UNCHANGED << envCookies, cookieFile, validSessions, browser,
                  ctxCookies, pageUrl, cookiesLoaded, isLoggedIn,
                  loginSuccess, pollI, loginPage, loginDetected, snapshot,
                  decided, loginPath, loginCycles, polls >>
  /\ UNCHANGED nonSearchVars
  /\ UNCHANGED lastVerify

\* performSearch: page.goto(search_result) resolved; the feeds container is
\* awaited.
GotoSearchOk(r) ==
  /\ spc[r] = "gotoSearch"
  /\ pageUrl' = [pageUrl EXCEPT ![r] = UrlSearch]
  /\ spc' = [spc EXCEPT ![r] = "waitFeeds"]
  /\ UNCHANGED << envCookies, cookieFile, validSessions, browser,
                  ctxCookies, cookiesLoaded, isLoggedIn, loginSuccess,
                  pollI, loginPage, loginDetected, snapshot, err, decided,
                  loginPath, loginCycles, polls >>
  /\ UNCHANGED nonSearchVars
  /\ UNCHANGED lastVerify

\* performSearch: page.goto(search_result) rejected.
GotoSearchFail(r) ==
  /\ spc[r] = "gotoSearch"
  /\ Throw(r, "gotoSearch")
  /\ UNCHANGED << envCookies, cookieFile, validSessions, browser,
                  ctxCookies, pageUrl, cookiesLoaded, isLoggedIn,
                  loginSuccess, pollI, loginPage, loginDetected, snapshot,
                  decided, loginPath, loginCycles, polls >>
  /\ UNCHANGED nonSearchVars
  /\ UNCHANGED lastVerify

\* performSearch: .feeds-container appeared.
WaitFeedsOk(r) ==
  /\ spc[r] = "waitFeeds"
  /\ AfterFeeds(r)
  /\ UNCHANGED << envCookies, cookieFile, validSessions, browser,
                  ctxCookies, pageUrl, cookiesLoaded, isLoggedIn,
                  loginSuccess, pollI, loginPage, loginDetected, snapshot,
                  err, decided, loginPath, loginCycles, polls >>
  /\ UNCHANGED << dom, count, noteLinks, concurrency, queue, results,
                  notes, wpc, noteInfo, index, notePage, note, fate, pulls,
                  pagesOpened, softTimeout, waited >>
  /\ UNCHANGED nonPipelineVars
  /\ UNCHANGED lastVerify

\* performSearch: .feeds-container did not appear in 15 s: the catch handler
\* waits 5000 ms more.
WaitFeedsTimeout(r) ==
  /\ spc[r] = "waitFeeds"
  /\ spc' = [spc EXCEPT ![r] = "waitFeedsMore"]
  /\ UNCHANGED << envCookies, cookieFile, validSessions, browser,
                  ctxCookies, pageUrl, cookiesLoaded, isLoggedIn,
                  loginSuccess, pollI, loginPage, loginDetected, snapshot,
                  err, decided, loginPath, loginCycles, polls >>
  /\ UNCHANGED nonSearchVars
  /\ UNCHANGED lastVerify

\* performSearch: the extra 5000 ms wait ended.
WaitFeedsMoreDone(r) ==
  /\ spc[r] = "waitFeedsMore"
  /\ AfterFeeds(r)
  /\ UNCHANGED << envCookies, cookieFile, validSessions, browser,
                  ctxCookies, pageUrl, cookiesLoaded, isLoggedIn,
                  loginSuccess, pollI, loginPage, loginDetected, snapshot,
                  err, decided, loginPath, loginCycles, polls >>
  /\ UNCHANGED << dom, count, noteLinks, concurrency, queue, results,
                  notes, wpc, noteInfo, index, notePage, note, fate, pulls,
                  pagesOpened, softTimeout, waited >>
  /\ UNCHANGED nonPipelineVars
  /\ UNCHANGED lastVerify

\* autoScroll: page.evaluate resolved; waitForTimeout(2000) is awaited.
ScrollOk(r) ==
  /\ spc[r] = "scroll"
  /\ spc' = [spc EXCEPT ![r] = "scrollSettle"]
  /\ UNCHANGED << envCookies, cookieFile, validSessions, browser,
                  ctxCookies, pageUrl, cookiesLoaded, isLoggedIn,
                  loginSuccess, pollI, loginPage, loginDetected, snapshot,
                  err, decided, loginPath, loginCycles, polls >>
  /\ UNCHANGED nonSearchVars
  /\ UNCHANGED lastVerify

\* autoScroll: page.evaluate rejected.
ScrollFail(r) ==
  /\ spc[r] = "scroll"
  /\ Throw(r, "scroll")
  /\ UNCHANGED << envCookies, cookieFile, validSessions, browser,
                  ctxCookies, pageUrl, cookiesLoaded, isLoggedIn,
                  loginSuccess, pollI, loginPage, loginDetected, snapshot,
                  decided, loginPath, loginCycles, polls >>
  /\ UNCHANGED nonSearchVars
  /\ UNCHANGED lastVerify

\* autoScroll returned; performSearch returned; extractNotes is called.
ScrollSettled(r) ==
  /\ spc[r] = "scrollSettle"
  /\ CallExtractNotes(r)
  /\ UNCHANGED << envCookies, cookieFile, validSessions, browser,
                  ctxCookies, pageUrl, cookiesLoaded, isLoggedIn,
                  loginSuccess, pollI, loginPage, loginDetected, snapshot,
                  err, decided, loginPath, loginCycles, polls >>
  /\ UNCHANGED << dom, count, noteLinks, concurrency, queue, results,
                  notes, wpc, noteInfo, index, notePage, note, fate, pulls,
                  pagesOpened, softTimeout, waited >>
  /\ UNCHANGED nonPipelineVars
  /\ UNCHANGED lastVerify

\* A search that returns the notes without saving the cookies.
ExtractNotesReturnedNoPersist(r) ==
  /\ spc[r] = "extractNotes"
  /\ xpc[r] = "returned"
  /\ spc' = [spc EXCEPT ![r] = "finalClose"]
  /\ UNCHANGED << envCookies, cookieFile, validSessions, browser,
                  ctxCookies, pageUrl, cookiesLoaded, isLoggedIn,
                  loginSuccess, pollI, loginPage, loginDetected, snapshot,
                  err, decided, loginPath, loginCycles, polls >>
  /\ UNCHANGED nonSearchVars
  /\ UNCHANGED lastVerify

\* extractNotes returned: saveCookies(context) awaits context.cookies().
ExtractNotesReturned(r) ==
  /\ spc[r] = "extractNotes"
  /\ xpc[r] = "returned"
  /\ spc' = [spc EXCEPT ![r] = "saveCookies"]
  /\ UNCHANGED << envCookies, cookieFile, validSessions, browser,
                  ctxCookies, pageUrl, cookiesLoaded, isLoggedIn,
                  loginSuccess, pollI, loginPage, loginDetected, snapshot,
                  err, decided, loginPath, loginCycles, polls >>
  /\ UNCHANGED nonSearchVars
  /\ UNCHANGED lastVerify

\* saveCookies: context.cookies() resolved; mkdir and writeFile are awaited.
SaveCookiesOk(r) ==
  /\ spc[r] = "saveCookies"
  /\ snapshot' = [snapshot EXCEPT ![r] = ctxCookies[r]]
  /\ spc' = [spc EXCEPT ![r] = "saveWrite"]
  /\ UNCHANGED << envCookies, cookieFile, validSessions, browser,
                  ctxCookies, pageUrl, cookiesLoaded, isLoggedIn,
                  loginSuccess, pollI, loginPage, loginDetected, err,
                  decided, loginPath, loginCycles, polls >>
  /\ UNCHANGED nonSearchVars
  /\ UNCHANGED lastVerify

\* A saveCookies without its catch: the rejection of context.cookies()
\* leaves searchXiaohongshu.
SaveCookiesFailThrows(r) ==
  /\ spc[r] = "saveCookies"
  /\ Throw(r, "saveCookies")
  /\ UNCHANGED << envCookies, cookieFile, validSessions, browser,
                  ctxCookies, pageUrl, cookiesLoaded, isLoggedIn,
                  loginSuccess, pollI, loginPage, loginDetected, snapshot,
                  decided, loginPath, loginCycles, polls >>
  /\ UNCHANGED nonSearchVars
  /\ UNCHANGED lastVerify

\* saveCookies: context.cookies() rejected: logged; `return notes` runs the
\* finally block.
SaveCookiesFail(r) ==
  /\ spc[r] = "saveCookies"
  /\ spc' = [spc EXCEPT ![r] = "finalClose"]
  /\ UNCHANGED << envCookies, cookieFile, validSessions, browser,
                  ctxCookies, pageUrl, cookiesLoaded, isLoggedIn,
                  loginSuccess, pollI, loginPage, loginDetected, snapshot,
                  err, decided, loginPath, loginCycles, polls >>
  /\ UNCHANGED nonSearchVars
  /\ UNCHANGED lastVerify

\* saveCookies: the cookie file was written; `return notes` runs finally.
SaveWriteOk(r) ==
  /\ spc[r] = "saveWrite"
  /\ cookieFile' = snapshot[r]
  /\ snapshot' = [snapshot EXCEPT ![r] = "none"]
  /\ spc' = [spc EXCEPT ![r] = "finalClose"]
  /\ UNCHANGED << envCookies, validSessions, browser, ctxCookies, pageUrl,
                  cookiesLoaded, isLoggedIn, loginSuccess, pollI,
                  loginPage, loginDetected, err, decided, loginPath,
                  loginCycles, polls >>
  /\ UNCHANGED nonSearchVars
  /\ UNCHANGED lastVerify

\* saveCookies: mkdir or writeFile rejected: logged only.
SaveWriteFail(r) ==
  /\ spc[r] = "saveWrite"
  /\ snapshot' = [snapshot EXCEPT ![r] = "none"]
  /\ spc' = [spc EXCEPT ![r] = "finalClose"]
  /\ UNCHANGED << envCookies, cookieFile, validSessions, browser,
                  ctxCookies, pageUrl, cookiesLoaded, isLoggedIn,
                  loginSuccess, pollI, loginPage, loginDetected, err,
                  decided, loginPath, loginCycles, polls >>
  /\ UNCHANGED nonSearchVars
  /\ UNCHANGED lastVerify

\* finally: browser.close() resolved: the pending return or exception
\* completes the call.
FinalCloseOk(r) ==
  /\ spc[r] = "finalClose"
  /\ browser' = [browser EXCEPT ![r] = "closed"]
  /\ spc' = [spc EXCEPT ![r] = IF err[r] = "none" THEN "returned" ELSE "threw"]
  /\ UNCHANGED << envCookies, cookieFile, validSessions, ctxCookies,
                  pageUrl, cookiesLoaded, isLoggedIn, loginSuccess, pollI,
                  loginPage, loginDetected, snapshot, err, decided,
                  loginPath, loginCycles, polls >>
  /\ UNCHANGED nonSearchVars
  /\ UNCHANGED lastVerify

\* finally: browser.close() rejected: its exception replaces the pending
\* completion.
FinalCloseFail(r) ==
  /\ spc[r] = "finalClose"
  /\ err' = [err EXCEPT ![r] = "browserClose"]
  /\ spc' = [spc EXCEPT ![r] = "threw"]
  /\ UNCHANGED << envCookies, cookieFile, validSessions, browser,
                  ctxCookies, pageUrl, cookiesLoaded, isLoggedIn,
                  loginSuccess, pollI, loginPage, loginDetected, snapshot,
                  decided, loginPath, loginCycles, polls >>
  /\ UNCHANGED nonSearchVars
  /\ UNCHANGED lastVerify



\* ----------------------------------------------- the search specification

\* The listing pages and counts of the search specification.
SearchListings == {ListingC, SubSeq(ListingA, 1, 3)}

SearchCounts == {1, 7}

\* searchXiaohongshu(query, count) has just been called by request 1 and
\* awaits chromium.launch.
InitSearch ==
  /\ envCookies \in {"absent", "malformed", "envSession"}
  /\ cookieFile \in {"absent", "malformed", "fileSession"}
  /\ validSessions \in SUBSET ({envCookies, cookieFile}
                                 \cap {"envSession", "fileSession"})
  /\ spc = [r \in Reqs |-> IF r = 1 THEN "launch" ELSE "idle"]
  /\ browser = [r \in Reqs |-> "null"]
  /\ ctxCookies = [r \in Reqs |-> "none"]
  /\ pageUrl = [r \in Reqs |-> <<>>]
  /\ cookiesLoaded = [r \in Reqs |-> FALSE]
  /\ isLoggedIn = [r \in Reqs |-> FALSE]
  /\ loginSuccess = [r \in Reqs |-> FALSE]
  /\ pollI = [r \in Reqs |-> 0]
  /\ loginPage = [r \in Reqs |-> FALSE]
  /\ loginDetected = [r \in Reqs |-> FALSE]
  /\ snapshot = [r \in Reqs |-> "none"]
  /\ err = [r \in Reqs |-> "none"]
  /\ decided = [r \in Reqs |-> FALSE]
  /\ loginPath = [r \in Reqs |-> FALSE]
  /\ loginCycles = [r \in Reqs |-> 0]
  /\ polls = [r \in Reqs |-> 0]
  /\ lastVerify = NoVerify
  /\ dom \in [Reqs -> SearchListings \cup {<<>>}]
  /\ count \in [Reqs -> SearchCounts \cup {0}]
  /\ dom[1] \in SearchListings
  /\ count[1] \in SearchCounts
  /\ \A r \in Reqs \ {1} : dom[r] = <<>> /\ count[r] = 0
  /\ xpc = [r \in Reqs |-> "idle"]
  /\ noteLinks = [r \in Reqs |-> <<>>]
  /\ concurrency = [r \in Reqs |-> 0]
  /\ queue = [r \in Reqs |-> <<>>]
  /\ results = [r \in Reqs |-> <<>>]
  /\ notes = [r \in Reqs |-> <<>>]
  /\ wpc = [r \in Reqs |-> WorkerIdle]
  /\ noteInfo = [r \in Reqs |-> [w \in Workers |-> NoRef]]
  /\ index = [r \in Reqs |-> [w \in Workers |-> 0]]
  /\ notePage = [r \in Reqs |-> [w \in Workers |-> "null"]]
  /\ note = [r \in Reqs |-> [w \in Workers |-> Undefined]]
  /\ fate = [r \in Reqs |-> <<>>]
  /\ pulls = [r \in Reqs |-> <<>>]
  /\ pagesOpened = [r \in Reqs |-> 0]
  /\ softTimeout = [r \in Reqs |-> [w \in Workers |-> FALSE]]
  /\ waited = [r \in Reqs |-> [w \in Workers |-> 0]]
  /\ CacheIdle
  /\ HandlerIdle

SearchStep(r) ==
  \/ LaunchOk(r)
  \/ LaunchFail(r)
  \/ NewContextOk(r)
  \/ NewContextFail(r)
  \/ SearchNewPageOk(r)
  \/ SearchNewPageFail(r)
  \/ AddCookiesEnvOk(r)
  \/ AddCookiesEnvFail(r)
  \/ ReadCookieFileOk(r)
  \/ ReadCookieFileFail(r)
  \/ AddCookiesFileOk(r)
  \/ AddCookiesFileFail(r)
  \/ GotoExploreOk(r)
  \/ GotoExploreFail(r)
  \/ ProbeSettle(r)
  \/ CloseHeadlessOk(r)
  \/ CloseHeadlessFail(r)
  \/ LaunchHeadfulOk(r)
  \/ LaunchHeadfulFail(r)
  \/ LoginNewContextOk(r)
  \/ LoginNewContextFail(r)
  \/ LoginNewPageOk(r)
  \/ LoginNewPageFail(r)
  \/ LoginGotoOk(r)
  \/ LoginGotoFail(r)
  \/ LoginSettled(r)
  \/ UserLogsIn(r)
  \/ PollTimer(r)
  \/ PollSettle(r)
  \/ LoginCookiesOk(r)
  \/ LoginCookiesFail(r)
  \/ LoginWriteOk(r)
  \/ LoginWriteFail(r)
  \/ LoginClosePageOk(r)
  \/ LoginClosePageFail(r)
  \/ LoginCloseContextOk(r)
  \/ LoginCloseContextFail(r)
  \/ CloseHeadfulOk(r)
  \/ CloseHeadfulFail(r)
  \/ GotoSearchOk(r)
  \/ GotoSearchFail(r)
  \/ WaitFeedsOk(r)
  \/ WaitFeedsTimeout(r)
  \/ WaitFeedsMoreDone(r)
  \/ ScrollOk(r)
  \/ ScrollFail(r)
  \/ ScrollSettled(r)
  \/ ExtractNotesReturned(r)
  \/ SaveCookiesOk(r)
  \/ SaveCookiesFail(r)
  \/ SaveWriteOk(r)
  \/ SaveWriteFail(r)
  \/ FinalCloseOk(r)
  \/ FinalCloseFail(r)

NextSearch ==
  \/ NextBatch
  \/ \E r \in Reqs : SearchStep(r)

SpecSearch == InitSearch /\ [][NextSearch]_vars

\* ------------------------------------------------- SearchCache: the calls

LogEntry(a, t, ret) ==
  [op |-> a.op, key |-> GenerateKey(a.query, a.count), data |-> a.data,
   at |-> t, ret |-> ret]

\* The entry a call addresses when it starts: in memory once the cache is
\* initialized, else in the file init is going to load.
Target(a) ==
  LET store == IF initialized THEN cache ELSE ReadStore(cacheFile)
      key == GenerateKey(a.query, a.count)
  IN IF key \in DOMAIN store THEN store[key] ELSE NoEntry

\* getStats after init: the number of entries and the timestamps of the
\* entries named as oldest and newest.
GetStats(store) ==
  IF DOMAIN store = {}
  THEN [totalEntries |-> 0, oldestEntry |-> Null, newestEntry |-> Null]
  ELSE LET ts == {store[k].timestamp : k \in DOMAIN store} IN
       [totalEntries |-> Cardinality(DOMAIN store),
        oldestEntry |-> CHOOSE t \in ts : \A u \in ts : t <= u,
        newestEntry |-> CHOOSE t \in ts : \A u \in ts : u <= t]

\* A hit that stamps the entry with the time of the read.
HitRefreshes(store, key, t) ==
  Put(store, key, [store[key] EXCEPT !.timestamp = t])

\* get on an unexpired entry: `return entry.data`; the store is as it was.
Hit(store, key, t) == store

\* get, set or getStats after `await this.init()`, on the in-memory store
\* `store`, up to the call's next await or its return.
Body(c, a, store) ==
  LET key == GenerateKey(a.query, a.count) IN
    IF a.op = "get" /\ key \notin DOMAIN store
    THEN /\ cache' = store
         /\ cpc' = [cpc EXCEPT ![c] = "returned"]
         /\ cret' = [cret EXCEPT ![c] = Null]
         /\ lastCall' = LogEntry(a, now, Null)
         /\ UNCHANGED << cjson, written >>
    ELSE IF a.op = "get" /\ IsExpired(store[key], now)
    THEN /\ cache' = Delete(store, key)
         /\ cjson' = [cjson EXCEPT ![c] = JsonStringify(Delete(store, key))]
         /\ cpc' = [cpc EXCEPT ![c] = "getSave"]
         /\ lastCall' = LogEntry(a, now, Null)
         /\ UNCHANGED << cret, written >>
    ELSE IF a.op = "get"
    THEN /\ cache' = Hit(store, key, now)
         /\ cpc' = [cpc EXCEPT ![c] = "returned"]
         /\ cret' = [cret EXCEPT ![c] = Array(store[key].data)]
         /\ lastCall' = LogEntry(a, now, Array(store[key].data))
         /\ UNCHANGED << cjson, written >>
    ELSE IF a.op = "set"
    THEN LET entry == [data |-> a.data, timestamp |-> now,
                       query |-> a.query, count |-> a.count]
         IN /\ cache' = Put(store, key, entry)
            /\ cjson' = [cjson EXCEPT ![c] =
                           JsonStringify(Put(store, key, entry))]
            /\ cpc' = [cpc EXCEPT ![c] = "setSave"]
            /\ lastCall' = LogEntry(a, now, Void)
            /\ written' = Put(written, key, [data |-> a.data, at |-> now])
            /\ UNCHANGED cret
    ELSE /\ cache' = store
         /\ cpc' = [cpc EXCEPT ![c] = "returned"]
         /\ cret' = [cret EXCEPT ![c] = GetStats(store)]
         /\ lastCall' = LogEntry(a, now, GetStats(store))
         /\ UNCHANGED << cjson, written >>

\* get, set or getStats is called: init returns at once when the cache is
\* initialized, else it awaits fs.mkdir.
Call(c, a) ==
  /\ cargs' = [cargs EXCEPT ![c] = a]
  /\ chist' = [chist EXCEPT ![c] =
                 [target |-> Target(a), start |-> now, ioFailed |-> FALSE]]
  /\ calls' = calls + 1
  /\ UNCHANGED << cleared, inits >>
  /\ IF initialized
     THEN /\ Body(c, a, cache)
          /\ UNCHANGED initialized
     ELSE /\ cpc' = [cpc EXCEPT ![c] = "mkdir"]
          /\ UNCHANGED << cache, initialized, cret, cjson, lastCall,
                          written >>

CanCall(c) == cpc[c] \in {"idle", "returned"} /\ calls < MaxCalls

\* searchCache.get(query, count) is called.
CallGet(c, query, n) ==
  /\ CanCall(c)
  /\ Call(c, [op |-> "get", query |-> query, count |-> n, data |-> << >>])
  /\ UNCHANGED << cacheFile, now >>
  /\ UNCHANGED nonCacheVars

\* searchCache.set(query, count, data) is called.
CallSet(c, query, n, data) ==
  /\ CanCall(c)
  /\ Call(c, [op |-> "set", query |-> query, count |-> n, data |-> data])
  /\ UNCHANGED << cacheFile, now >>
  /\ UNCHANGED nonCacheVars

\* searchCache.getStats() is called.
CallGetStats(c) ==
  /\ CanCall(c)
  /\ Call(c, [op |-> "stats", query |-> << >>, count |-> 0, data |-> << >>])
  /\ UNCHANGED << cacheFile, now >>
  /\ UNCHANGED nonCacheVars

\* clear, which does not await init: this.cache = {} and save() awaits
\* fs.writeFile.
Clear(c) ==
  /\ cargs' = [cargs EXCEPT ![c] =
                 [op |-> "clear", query |-> << >>, count |-> 0,
                  data |-> << >>]]
  /\ chist' = [chist EXCEPT ![c] =
                 [target |-> NoEntry, start |-> now, ioFailed |-> FALSE]]
  /\ calls' = calls + 1
  /\ cleared' = TRUE
  /\ UNCHANGED inits
  /\ cache' = EmptyStore
  /\ cjson' = [cjson EXCEPT ![c] = JsonStringify(EmptyStore)]
  /\ cpc' = [cpc EXCEPT ![c] = "clearSave"]
  /\ lastCall' = [op |-> "clear", key |-> << >>, data |-> << >>,
                  at |-> now, ret |-> Void]
  /\ written' = EmptyStore
  /\ UNCHANGED << initialized, cret >>

\* searchCache.clear() is called.
CallClear(c) ==
  /\ CanCall(c)
  /\ Clear(c)
  /\ UNCHANGED << cacheFile, now >>
  /\ UNCHANGED nonCacheVars

\* init after the inner try/catch left `loaded` in this.cache:
\* cleanExpiredEntries, whose save() is awaited when it removed something;
\* otherwise init completes and the caller goes on.
ReadFileDone(c, loaded) ==
  LET swept == CleanExpiredEntries(loaded, now) IN
    IF swept /= loaded
    THEN /\ cache' = swept
         /\ cjson' = [cjson EXCEPT ![c] = JsonStringify(swept)]
         /\ cpc' = [cpc EXCEPT ![c] = "sweepSave"]
         /\ UNCHANGED << initialized, cret, lastCall, written >>
    ELSE /\ initialized' = TRUE
         /\ Body(c, cargs[c], loaded)

\* init: fs.mkdir resolved; fs.readFile is awaited.
MkdirOk(c) ==
  /\ cpc[c] = "mkdir"
  /\ cpc' = [cpc EXCEPT ![c] = "readFile"]
  /\ UNCHANGED << cache, initialized, cacheFile, now, cargs, cret, cjson,
                  chist, lastCall, written, calls, cleared, inits >>
  /\ UNCHANGED nonCacheVars

\* init: fs.mkdir rejected: the outer catch empties the store and marks the
\* cache initialized.
MkdirFail(c) ==
  /\ cpc[c] = "mkdir"
  /\ initialized' = TRUE
  /\ Body(c, cargs[c], EmptyStore)
  /\ chist' = [chist EXCEPT ![c].ioFailed = TRUE]
  /\ inits' = inits + 1
  /\ UNCHANGED << cacheFile, now, cargs, calls, cleared >>
  /\ UNCHANGED nonCacheVars

\* init: fs.readFile settled with the file as it is now.
ReadFileSettle(c) ==
  /\ cpc[c] = "readFile"
  /\ ReadFileDone(c, ReadStore(cacheFile))
  /\ inits' = inits + 1
  /\ UNCHANGED << cacheFile, now, cargs, chist, calls, cleared >>
  /\ UNCHANGED nonCacheVars

\* init: fs.readFile rejected although the file may exist.
ReadFileError(c) ==
  /\ cpc[c] = "readFile"
  /\ ReadFileDone(c, EmptyStore)
  /\ chist' = [chist EXCEPT ![c].ioFailed = TRUE]
  /\ inits' = inits + 1
  /\ UNCHANGED << cacheFile, now, cargs, calls, cleared >>
  /\ UNCHANGED nonCacheVars

SavePositions == {"sweepSave", "getSave", "setSave", "clearSave"}

\* save() returned: init completes and the caller goes on, or get, set or
\* clear returns.
AfterSave(c) ==
  IF cpc[c] = "sweepSave"
  THEN /\ initialized' = TRUE
       /\ Body(c, cargs[c], cache)
  ELSE /\ cpc' = [cpc EXCEPT ![c] = "returned"]
       /\ cret' = [cret EXCEPT ![c] =
                     IF cargs[c].op = "get" THEN Null ELSE Void]
       /\ UNCHANGED << cache, initialized, cjson, lastCall, written >>

\* save: fs.writeFile resolved: the file holds the text it was given.
SaveOk(c) ==
  /\ cpc[c] \in SavePositions
  /\ cacheFile' = JsonFile(cjson[c])
  /\ AfterSave(c)
  /\ UNCHANGED << now, cargs, chist, calls, cleared, inits >>
  /\ UNCHANGED nonCacheVars

\* A save without its catch block: the rejection leaves the call.
SaveFailThrows(c) ==
  /\ cpc[c] \in SavePositions
  /\ cacheFile' \in {cacheFile, CorruptFile}
  /\ chist' = [chist EXCEPT ![c].ioFailed = TRUE]
  /\ cpc' = [cpc EXCEPT ![c] = "threw"]
  /\ UNCHANGED << cache, initialized, cret, cjson, lastCall, written >>
  /\ UNCHANGED << now, cargs, calls, cleared, inits >>
  /\ UNCHANGED nonCacheVars

\* save: fs.writeFile rejected, leaving the file as it was or truncated; the
\* error is logged.
SaveFail(c) ==
  /\ cpc[c] \in SavePositions
  /\ cacheFile' \in {cacheFile, CorruptFile}
  /\ chist' = [chist EXCEPT ![c].ioFailed = TRUE]
  /\ AfterSave(c)
  /\ UNCHANGED << now, cargs, calls, cleared, inits >>
  /\ UNCHANGED nonCacheVars

\* The timestamps of the entries in memory, in the file and in the texts
\* of the pending writes.
StoredTimestamps ==
  LET stores == {cache, ReadStore(cacheFile)}
                  \cup {cjson[c] : c \in {x \in Reqs : cpc[x] \in SavePositions}}
  IN UNION {{st[k].timestamp : k \in DOMAIN st} : st \in stores}

\* Time passes.
Tick(d) ==
  /\ d <= CACHE_EXPIRY_MS + MaxDrift - (now - InitialNow)
  /\ LET elapsed == now + d - InitialNow IN
       \/ elapsed <= MaxDrift
       \/ elapsed >= CACHE_EXPIRY_MS /\ elapsed <= CACHE_EXPIRY_MS + MaxDrift
  /\ \A t \in StoredTimestamps : d <= CACHE_EXPIRY_MS + MaxDrift - (now - t)
  /\ now' = now + d
  /\ UNCHANGED << cache, initialized, cacheFile, cpc, cargs, cret, cjson,
                  chist, lastCall, written, calls, cleared, inits >>
  /\ UNCHANGED nonCacheVars

CacheStep(c) ==
  \/ MkdirOk(c)
  \/ MkdirFail(c)
  \/ ReadFileSettle(c)
  \/ ReadFileError(c)
  \/ SaveOk(c)
  \/ SaveFail(c)

\* --------------------------------------------- the cache specifications

\* No batch is in progress.
BatchQuiet ==
  /\ dom = [r \in Reqs |-> << >>]
  /\ count = [r \in Reqs |-> 0]
  /\ xpc = [r \in Reqs |-> "idle"]
  /\ noteLinks = [r \in Reqs |-> << >>]
  /\ concurrency = [r \in Reqs |-> 0]
  /\ queue = [r \in Reqs |-> << >>]
  /\ results = [r \in Reqs |-> << >>]
  /\ notes = [r \in Reqs |-> << >>]
  /\ wpc = [r \in Reqs |-> WorkerIdle]
  /\ noteInfo = [r \in Reqs |-> [w \in Workers |-> NoRef]]
  /\ index = [r \in Reqs |-> [w \in Workers |-> 0]]
  /\ notePage = [r \in Reqs |-> [w \in Workers |-> "null"]]
  /\ note = [r \in Reqs |-> [w \in Workers |-> Undefined]]
  /\ fate = [r \in Reqs |-> << >>]
  /\ pulls = [r \in Reqs |-> << >>]
  /\ pagesOpened = [r \in Reqs |-> 0]
  /\ softTimeout = [r \in Reqs |-> [w \in Workers |-> FALSE]]
  /\ waited = [r \in Reqs |-> [w \in Workers |-> 0]]

\* The (query, count) pairs of the calls: two queries that differ in case
\* and surrounding blanks only, and one of them with another count.
CachePairs ==
  { [query |-> << "C", " " >>, count |-> 5],
    [query |-> << "c" >>, count |-> 5],
    [query |-> << "c" >>, count |-> 55] }

SampleRef ==
  [oid |-> 1, title |-> "u1", link |-> << Host, "q1" >>, author |-> "b1"]

\* An empty result, and a result with a degraded record and a record whose
\* authorDesc is undefined.
CachePayloads ==
  { << >>, << DegradedNote(SampleRef), FullNote(SampleRef, SparseDetail) >> }

\* What the cache file may hold when the process starts: entries written by
\* an earlier run, older than CACHE_EXPIRY_MS or exactly that old.
PersistedPairs ==
  { [query |-> << "c" >>, count |-> 5], [query |-> << "c" >>, count |-> 55] }

PersistedAges == {"none", "expired", "boundary"}

PersistedStore(ages) ==
  LET kept == {p \in PersistedPairs : ages[p] /= "none"} IN
    [k \in {GenerateKey(p.query, p.count) : p \in kept} |->
       LET p == CHOOSE q \in kept : GenerateKey(q.query, q.count) = k IN
         [data |-> JsonNotes(<< FullNote(SampleRef, RichDetail) >>),
          timestamp |-> IF ages[p] = "expired"
                        THEN InitialNow - CACHE_EXPIRY_MS - 1
                        ELSE InitialNow - CACHE_EXPIRY_MS,
          query |-> p.query,
          count |-> p.count]]

InitFiles ==
  {NoFile, CorruptFile}
    \cup {JsonFile(PersistedStore(ages)) :
            ages \in [PersistedPairs -> PersistedAges]}

\* The process has started; no call was made on searchCache yet.
InitCacheSeq ==
  /\ BatchQuiet
  /\ SearchIdle
  /\ HandlerIdle
  /\ cache = EmptyStore
  /\ initialized = FALSE
  /\ cacheFile \in InitFiles
  /\ now = InitialNow
  /\ cpc = [c \in Reqs |-> "idle"]
  /\ cargs = [c \in Reqs |-> NoArgs]
  /\ cret = [c \in Reqs |-> Void]
  /\ cjson = [c \in Reqs |-> EmptyStore]
  /\ chist = [c \in Reqs |-> NoHist]
  /\ lastCall = NoCall
  /\ written = EmptyStore
  /\ calls = 0
  /\ cleared = FALSE
  /\ inits = 0

\* One caller, which awaits every call before it makes the next one.
NextCacheSeq ==
  \/ \E p \in CachePairs : CallGet(1, p.query, p.count)
  \/ \E p \in CachePairs, d \in CachePayloads :
       CallSet(1, p.query, p.count, d)
  \/ CallGetStats(1)
  \/ CallClear(1)
  \/ CacheStep(1)
  \/ \E d \in {1, CACHE_EXPIRY_MS} : Tick(d)

SpecCacheSeq == InitCacheSeq /\ [][NextCacheSeq]_vars

\* ---------------------------------------- the concurrent-cache specification

\* The keys of the concurrent calls.
ConcPairs ==
  { [query |-> << "c" >>, count |-> 5], [query |-> << "c" >>, count |-> 55] }

ConcPayload == << DegradedNote(SampleRef) >>

\* The cache file when the process starts: missing, or holding an entry of
\* age CACHE_EXPIRY_MS under each key.
ConcFiles ==
  {NoFile, JsonFile(PersistedStore([p \in PersistedPairs |-> "boundary"]))}

InitCacheConc ==
  /\ InitCacheSeq
  /\ cacheFile \in ConcFiles

\* Two callers (two requests being handled) use the one searchCache; a
\* caller makes its next call when its previous one has returned.
NextCacheConc ==
  \E c \in Reqs :
    \/ \E p \in ConcPairs : CallGet(c, p.query, p.count)
    \/ \E p \in ConcPairs : CallSet(c, p.query, p.count, ConcPayload)
    \/ CallGetStats(c)
    \/ CallClear(c)
    \/ CacheStep(c)

SpecCacheConc == InitCacheConc /\ [][NextCacheConc]_vars

\* ------------------------------------------ the write-through specification

\* The key each caller uses: the callers never address the same key.
CallerPair(c) ==
  IF c = 1 THEN [query |-> << "c" >>, count |-> 5]
           ELSE [query |-> << "c" >>, count |-> 55]

\* The cache file when the process starts: missing, or a readable store
\* with an entry under each key, both of age CACHE_EXPIRY_MS or the first
\* of them older.
WriteThroughFiles ==
  {NoFile,
   JsonFile(PersistedStore([p \in PersistedPairs |-> "boundary"])),
   JsonFile(PersistedStore([p \in PersistedPairs |->
                              IF p = CallerPair(1) THEN "expired"
                                                   ELSE "boundary"]))}

InitWriteThrough ==
  /\ InitCacheSeq
  /\ cacheFile \in WriteThroughFiles

\* Two callers make get, set and clear calls on the one searchCache, each on
\* its own key; every fs.mkdir, fs.readFile and fs.writeFile succeeds.
NextWriteThrough ==
  \/ \E c \in Reqs :
       \/ CallGet(c, CallerPair(c).query, CallerPair(c).count)
       \/ CallSet(c, CallerPair(c).query, CallerPair(c).count, ConcPayload)
       \/ CallClear(c)
       \/ MkdirOk(c)
       \/ ReadFileSettle(c)
       \/ SaveOk(c)
  \/ Tick(1)

SpecWriteThrough == InitWriteThrough /\ [][NextWriteThrough]_vars

\* ---------------------------------------------- the scroll specification

\* const distance = 300;
Distance == 300

\* const maxScrolls = 10;
MaxScrolls == 10

\* Tallest listing page, in steps of half a scroll distance.
MaxHalfScreens == 24

\* The heights the listing page can have.
PageHeights == {h * (Distance \div 2) : h \in 0 .. MaxHalfScreens}

\* Everything but the scroll.
nonScrollVars ==
  << batchVars, searchVars, cacheVars, hpc, hreq, response, searches,
     mcpVars >>

\* performSearch after the feeds wait, called with count n:
\* `if (count > 6) await autoScroll(page)`.  autoScroll's evaluate sets its
\* counters and starts the 200 ms interval.
PerformSearchScroll(n) ==
  /\ apc = "idle"
  /\ scrollArg' = n
  /\ totalHeight' = 0
  /\ scrollCount' = 0
  /\ apc' = IF n > ScrollThreshold THEN "interval" ELSE "skipped"
  /\ UNCHANGED << scrollHeight, lastHeight >>
  /\ UNCHANGED nonScrollVars

\* An interval callback that stops on the page height alone.
IntervalTickUnbounded ==
  /\ apc = "interval"
  /\ lastHeight' = scrollHeight
  /\ totalHeight' = totalHeight + Distance
  /\ scrollCount' = scrollCount + 1
  /\ apc' = IF totalHeight + Distance >= scrollHeight
            THEN "settle" ELSE "interval"
  /\ UNCHANGED << scrollArg, scrollHeight >>
  /\ UNCHANGED nonScrollVars

\* The interval callback: reads scrollHeight, scrolls by `distance`, counts,
\* and on `totalHeight >= scrollHeight || scrollCount >= maxScrolls` clears
\* the interval and resolves; waitForTimeout(2000) is awaited then.
IntervalTick ==
  /\ apc = "interval"
  /\ lastHeight' = scrollHeight
  /\ totalHeight' = totalHeight + Distance
  /\ scrollCount' = scrollCount + 1
  /\ apc' = IF \/ totalHeight + Distance >= scrollHeight
               \/ scrollCount + 1 >= MaxScrolls
            THEN "settle" ELSE "interval"
  /\ UNCHANGED << scrollArg, scrollHeight >>
  /\ UNCHANGED nonScrollVars

\* The page loads more entries and grows by d.
PageGrows(d) ==
  /\ apc \in {"idle", "interval"}
  /\ scrollHeight + d \in PageHeights
  /\ scrollHeight' = scrollHeight + d
  /\ UNCHANGED << scrollArg, apc, totalHeight, scrollCount, lastHeight >>
  /\ UNCHANGED nonScrollVars

\* page.evaluate rejected while the interval ran (the page went away).
ScrollEvaluateFail ==
  /\ apc = "interval"
  /\ apc' = "threw"
  /\ UNCHANGED << scrollArg, scrollHeight, totalHeight, scrollCount,
                  lastHeight >>
  /\ UNCHANGED nonScrollVars

\* waitForTimeout(2000) ended: autoScroll and performSearch return.
ScrollSettleDone ==
  /\ apc = "settle"
  /\ apc' = "done"
  /\ UNCHANGED << scrollArg, scrollHeight, totalHeight, scrollCount,
                  lastHeight >>
  /\ UNCHANGED nonScrollVars

\* The counts performSearch is called with: the threshold and its
\* neighbours.
ScrollCounts == {ScrollThreshold - 1, ScrollThreshold, ScrollThreshold + 1}

InitScroll ==
  /\ BatchQuiet
  /\ SearchIdle
  /\ CacheIdle
  /\ HandlerIdle

NextScroll ==
  \/ \E n \in ScrollCounts : PerformSearchScroll(n)
  \/ IntervalTick
  \/ \E d \in {Distance \div 2, Distance, 2 * Distance} : PageGrows(d)
  \/ ScrollEvaluateFail
  \/ ScrollSettleDone

SpecScroll == InitScroll /\ [][NextScroll]_vars

\* ----------------------------------------------- the key specification

\* Every string over Alphabet of at most MaxQueryLen characters.
KeyQueries == UNION {[1 .. n -> Alphabet] : n \in 0 .. MaxQueryLen}

KeyCounts == {5, 55}

KeyPayload == << DegradedNote(SampleRef) >>

\* The process has started without a cache file.
InitKey ==
  /\ BatchQuiet
  /\ SearchIdle
  /\ HandlerIdle
  /\ CacheIdle

\* Caller 1 sets an entry and awaits the call; caller 2 then gets one.
NextKey ==
  \/ \E q \in KeyQueries, n \in KeyCounts :
       calls = 0 /\ CallSet(1, q, n, KeyPayload)
  \/ \E q \in KeyQueries, n \in KeyCounts :
       calls = 1 /\ cpc[1] = "returned" /\ CallGet(2, q, n)
  \/ CacheStep(1)

SpecKey == InitKey /\ [][NextKey]_vars

\* ------------------------------------------------- the /search handler

\* A condition that takes an empty array for a miss.
TruthyNonEmpty(v) == v /= Null /\ v /= Array(<< >>)

\* if (cachedResults): null is falsy, every array is truthy.
Truthy(v) == v /= Null

\* GET /search with parameters the schema accepts: the handler awaits
\* searchCache.get(query, count).
SearchRequest(r, query, n) ==
  /\ hpc[r] = "idle"
  /\ hreq' = [hreq EXCEPT ![r] = [query |-> query, count |-> n]]
  /\ hpc' = [hpc EXCEPT ![r] = "get"]
  /\ Call(r, [op |-> "get", query |-> query, count |-> n, data |-> << >>])
  /\ UNCHANGED << cacheFile, now, response, searches >>
  /\ UNCHANGED << batchVars, searchVars >>
  /\ UNCHANGED << mcpVars, scrollVars >>

\* GET /search with parameters the schema rejects: 400.
SearchRequestInvalid(r) ==
  /\ hpc[r] = "idle"
  /\ hpc' = [hpc EXCEPT ![r] = "responded"]
  /\ response' = [response EXCEPT ![r] =
                    [status |-> 400, error |-> "Invalid query parameters"]]
  /\ UNCHANGED << hreq, searches >>
  /\ UNCHANGED << batchVars, searchVars, cacheVars >>
  /\ UNCHANGED << mcpVars, scrollVars >>

\* searchCache.get resolved with an array: 200 with the cached results.
CacheHit(r) ==
  /\ hpc[r] = "get"
  /\ cpc[r] = "returned"
  /\ Truthy(cret[r])
  /\ hpc' = [hpc EXCEPT ![r] = "responded"]
  /\ response' = [response EXCEPT ![r] =
                    [status |-> 200, body |-> JsonNotes(cret[r].array)]]
  /\ UNCHANGED << hreq, searches >>
  /\ UNCHANGED << batchVars, searchVars, cacheVars >>
  /\ UNCHANGED << mcpVars, scrollVars >>

\* searchCache.get resolved with null: searchXiaohongshu(query, count) is
\* called and awaits chromium.launch.
CacheMiss(r) ==
  /\ hpc[r] = "get"
  /\ cpc[r] = "returned"
  /\ ~Truthy(cret[r])
  /\ hpc' = [hpc EXCEPT ![r] = "search"]
  /\ searches' = [searches EXCEPT ![r] = @ + 1]
  /\ count' = [count EXCEPT ![r] = hreq[r].count]
  /\ \E listing \in SearchListings : dom' = [dom EXCEPT ![r] = listing]
  /\ spc' = [spc EXCEPT ![r] = "launch"]
  /\ UNCHANGED << hreq, response >>
  /\ UNCHANGED << xpc, noteLinks, concurrency, queue, results, notes, wpc,
                  noteInfo, index, notePage, note, fate, pulls, pagesOpened,
                  softTimeout, waited >>
  /\ UNCHANGED << envCookies, cookieFile, validSessions, browser,
                  ctxCookies, pageUrl, cookiesLoaded, isLoggedIn,
                  loginSuccess, pollI, loginPage, loginDetected, snapshot,
                  err, decided, loginPath, loginCycles, polls >>
  /\ UNCHANGED cacheVars
  /\ UNCHANGED lastVerify
  /\ UNCHANGED << mcpVars, scrollVars >>

\* A handler that answers with the results without storing them.
SearchReturnedNoSet(r) ==
  /\ hpc[r] = "search"
  /\ spc[r] = "returned"
  /\ hpc' = [hpc EXCEPT ![r] = "responded"]
  /\ response' = [response EXCEPT ![r] =
                    [status |-> 200, body |-> JsonNotes(notes[r])]]
  /\ UNCHANGED << hreq, searches >>
  /\ UNCHANGED << batchVars, searchVars, cacheVars >>
  /\ UNCHANGED << mcpVars, scrollVars >>

\* searchXiaohongshu returned `results`: searchCache.set(query, count,
\* results) is awaited.
SearchReturned(r) ==
  /\ hpc[r] = "search"
  /\ spc[r] = "returned"
  /\ hpc' = [hpc EXCEPT ![r] = "set"]
  /\ Call(r, [op |-> "set", query |-> hreq[r].query,
              count |-> hreq[r].count, data |-> notes[r]])
  /\ UNCHANGED << cacheFile, now, hreq, response, searches >>
  /\ UNCHANGED << batchVars, searchVars >>
  /\ UNCHANGED << mcpVars, scrollVars >>

\* A handler that stores an empty array when searchXiaohongshu threw.
SearchThrewCaches(r) ==
  /\ hpc[r] = "search"
  /\ spc[r] = "threw"
  /\ hpc' = [hpc EXCEPT ![r] = "set"]
  /\ Call(r, [op |-> "set", query |-> hreq[r].query,
              count |-> hreq[r].count, data |-> << >>])
  /\ UNCHANGED << cacheFile, now, hreq, response, searches >>
  /\ UNCHANGED << batchVars, searchVars >>
  /\ UNCHANGED << mcpVars, scrollVars >>

\* searchXiaohongshu threw: the catch block answers 500.
SearchThrew(r) ==
  /\ hpc[r] = "search"
  /\ spc[r] = "threw"
  /\ hpc' = [hpc EXCEPT ![r] = "responded"]
  /\ response' = [response EXCEPT ![r] =
                    [status |-> 500, error |-> err[r]]]
  /\ UNCHANGED << hreq, searches >>
  /\ UNCHANGED << batchVars, searchVars, cacheVars >>
  /\ UNCHANGED << mcpVars, scrollVars >>

\* searchCache.set resolved: 200 with the results.
SetReturned(r) ==
  /\ hpc[r] = "set"
  /\ cpc[r] = "returned"
  /\ hpc' = [hpc EXCEPT ![r] = "responded"]
  /\ response' = [response EXCEPT ![r] =
                    [status |-> 200, body |-> JsonNotes(notes[r])]]
  /\ UNCHANGED << hreq, searches >>
  /\ UNCHANGED << batchVars, searchVars, cacheVars >>
  /\ UNCHANGED << mcpVars, scrollVars >>

\* The queries of the requests.
HandlerQueries == { << "C", " " >> }

\* The cache file when the server starts: missing, or holding for the keys
\* of the requests an entry that is fresh with some records, fresh with no
\* record, or older than CACHE_EXPIRY_MS.
HandlerEntries == {"fresh", "freshEmpty", "expired"}

HandlerStore(kind) ==
  [k \in {GenerateKey(<< "c" >>, n) : n \in SearchCounts} |->
     [data |-> IF kind = "freshEmpty" THEN << >>
               ELSE JsonNotes(<< FullNote(SampleRef, RichDetail) >>),
      timestamp |-> IF kind = "expired"
                    THEN InitialNow - CACHE_EXPIRY_MS - 1
                    ELSE InitialNow - 1,
      query |-> << "c" >>,
      count |-> CHOOSE n \in SearchCounts : GenerateKey(<< "c" >>, n) = k]]

HandlerFiles == {NoFile} \cup {JsonFile(HandlerStore(e)) : e \in HandlerEntries}

\* The server has started; request 1 has not arrived yet.  The cookies come
\* from the environment and are accepted by the site, or from the cookie
\* file and are not.
InitHandler ==
  /\ BatchQuiet
  /\ \/ envCookies = "envSession" /\ cookieFile = "absent"
        /\ validSessions = {"envSession"}
     \/ envCookies = "absent" /\ cookieFile = "fileSession"
        /\ validSessions = {}
  /\ spc = [r \in Reqs |-> "idle"]
  /\ browser = [r \in Reqs |-> "null"]
  /\ ctxCookies = [r \in Reqs |-> "none"]
  /\ pageUrl = [r \in Reqs |-> <<>>]
  /\ cookiesLoaded = [r \in Reqs |-> FALSE]
  /\ isLoggedIn = [r \in Reqs |-> FALSE]
  /\ loginSuccess = [r \in Reqs |-> FALSE]
  /\ pollI = [r \in Reqs |-> 0]
  /\ loginPage = [r \in Reqs |-> FALSE]
  /\ loginDetected = [r \in Reqs |-> FALSE]
  /\ snapshot = [r \in Reqs |-> "none"]
  /\ err = [r \in Reqs |-> "none"]
  /\ decided = [r \in Reqs |-> FALSE]
  /\ loginPath = [r \in Reqs |-> FALSE]
  /\ loginCycles = [r \in Reqs |-> 0]
  /\ polls = [r \in Reqs |-> 0]
  /\ lastVerify = NoVerify
  /\ cache = EmptyStore
  /\ initialized = FALSE
  /\ cacheFile \in HandlerFiles
  /\ now = InitialNow
  /\ cpc = [c \in Reqs |-> "idle"]
  /\ cargs = [c \in Reqs |-> NoArgs]
  /\ cret = [c \in Reqs |-> Void]
  /\ cjson = [c \in Reqs |-> EmptyStore]
  /\ chist = [c \in Reqs |-> NoHist]
  /\ lastCall = NoCall
  /\ written = EmptyStore
  /\ calls = 0
  /\ cleared = FALSE
  /\ inits = 0
  /\ HandlerIdle

\* One request, and everything it sets going.
NextHandler ==
  \/ \E q \in HandlerQueries, n \in SearchCounts : SearchRequest(1, q, n)
  \/ SearchRequestInvalid(1)
  \/ CacheHit(1)
  \/ CacheMiss(1)
  \/ SearchReturned(1)
  \/ SearchThrew(1)
  \/ SetReturned(1)
  \/ CacheStep(1)
  \/ SearchStep(1)
  \/ NextBatch

SpecHandler == InitHandler /\ [][NextHandler]_vars

\* --------------------------------------------- the service specification

\* The cache file when the server starts: an unexpired or an expired entry
\* for the keys of the requests.
ServiceFiles == {JsonFile(HandlerStore(e)) : e \in {"fresh", "expired"}}

\* The count of the request.
ServiceCount == 7

InitService ==
  /\ InitHandler
  /\ cacheFile \in ServiceFiles

\* GET /cache/stats before the request arrives, the request and everything
\* it sets going, and DELETE /cache after the request was answered.
NextService ==
  \/ hpc[1] = "idle" /\ calls = 0 /\ CallGetStats(2)
  \/ \E q \in HandlerQueries :
       cpc[2] \in {"idle", "returned"} /\ SearchRequest(1, q, ServiceCount)
  \/ SearchRequestInvalid(1)
  \/ CacheHit(1)
  \/ CacheMiss(1)
  \/ SearchReturned(1)
  \/ SearchThrew(1)
  \/ SetReturned(1)
  \/ hpc[1] = "responded" /\ CallClear(2)
  \/ CacheStep(1)
  \/ CacheStep(2)
  \/ SearchStep(1)
  \/ NextBatch

SpecService == InitService /\ [][NextService]_vars

\* ------------------------------------------------- the Cloudflare Worker

ToolName == "search_xiaohongshu"

\* The message of the Error thrown when env.XIAOHONGSHU_API_URL is not set.
NotAvailable ==
  << "Browser-based scraping is not available in Cloudflare Workers." >>

\* The message of the TypeError of reading a property of null or undefined.
TypeErrorMessage == << "Cannot read properties of undefined" >>

\* encodeURIComponent over Alphabet: letters and digits stay, the blank and
\* the colon are percent-encoded.
EncodeURIComponent(str) ==
  [i \in 1 .. Len(str) |->
     IF str[i] = " " THEN "%20" ELSE IF str[i] = ":" THEN "%3A" ELSE str[i]]

\* The default of the parameter `count: number = 5`.
CountOrDefault(args) == IF "count" \in DOMAIN args THEN args.count ELSE 5

\* The value the catch block of the tool handler returns.
ToolError(message) ==
  [content |-> << [type |-> "text",
                   text |-> << "Error searching Xiaohongshu content: " >>
                              \o message] >>,
   isError |-> TRUE]

\* The text block of note i.
NoteText(i, n) ==
  [heading |-> << i, n.title >>,
   author |-> n.author,
   authorDesc |-> IF "authorDesc" \in DOMAIN n /\ n.authorDesc /= ""
                  THEN n.authorDesc ELSE "",
   interactions |->
     (IF "likes" \in DOMAIN n THEN << n.likes >> ELSE << >>)
       \o (IF "collects" \in DOMAIN n THEN << n.collects >> ELSE << >>)
       \o (IF "comments" \in DOMAIN n THEN << n.comments >> ELSE << >>),
   content |-> n.content,
   tags |-> IF "tags" \in DOMAIN n THEN n.tags ELSE << >>,
   link |-> n.link]

\* The blocks pushed in one iteration of the loop over results.
NoteBlocks(i, n) ==
  << [type |-> "text", text |-> NoteText(i, n)] >>
    \o (IF "images" \in DOMAIN n
        THEN [j \in 1 .. Len(n.images) |->
                [type |-> "resource",
                 resource |-> [uri |-> n.images[j],
                               text |-> << j, n.title >>]]]
        ELSE << >>)
    \o << [type |-> "text", text |-> "---"] >>

RECURSIVE AllNoteBlocks(_, _)
AllNoteBlocks(items, i) ==
  IF i > Len(items) THEN << >>
  ELSE NoteBlocks(i, items[i]) \o AllNoteBlocks(items, i + 1)

\* The try block of the tool handler after searchXiaohongshuWorker resolved
\* with `payload`: a JSON array, null, or an object that is not an array
\* (its length is undefined and the loop is not entered).
Render(query, payload) ==
  IF payload.kind = "null" THEN ToolError(TypeErrorMessage)
  ELSE IF payload.kind = "object"
  THEN [content |-> << [type |-> "text",
                        text |-> [query |-> query, found |-> "undefined"]] >>]
  ELSE IF \E i \in 1 .. Len(payload.items) :
            "content" \notin DOMAIN payload.items[i]
  THEN ToolError(TypeErrorMessage)
  ELSE [content |->
          << [type |-> "text",
              text |-> [query |-> query, found |-> Len(payload.items)]] >>
            \o AllNoteBlocks(payload.items, 1)]

RpcResult(id, result) ==
  [status |-> 200, json |-> [jsonrpc |-> "2.0", id |-> id, result |-> result]]

RpcError(id, status, message) ==
  [status |-> status,
   json |-> [jsonrpc |-> "2.0", id |-> id,
             error |-> [code |-> -32601, message |-> message]]]

\* The Response of the catch block of handleMcpRequest.
InternalServerError ==
  [status |-> 500, json |-> [error |-> "Internal server error"]]

Respond(r) ==
  /\ mpc' = "responded"
  /\ reply' = r

\* A request that is not a POST is answered 405; a POST whose body is not
\* JSON makes request.json() throw, which the catch block answers.
McpMalformed(kind) ==
  /\ mpc \in {"idle", "responded"}
  /\ body' = NoBody
  /\ outbound' = NoFetch
  /\ Respond(IF kind = "notPost" THEN [status |-> 405]
             ELSE InternalServerError)
  /\ UNCHANGED << env, hpc, hreq, response, searches,
                  scrollVars >>
  /\ UNCHANGED << batchVars, searchVars, cacheVars >>

\* tool.handler(args, {}) up to its first await: the parameters are
\* destructured before the try block is entered, searchXiaohongshuWorker
\* throws at once when no service is configured and otherwise awaits fetch.
ToolHandler(b) ==
  IF b.params.arguments = Undefined
  THEN /\ Respond(InternalServerError)
       /\ outbound' = NoFetch
  ELSE IF ~env.url
  THEN /\ Respond(RpcResult(b.id, ToolError(NotAvailable)))
       /\ outbound' = NoFetch
  ELSE /\ mpc' = "fetch"
       /\ outbound' = [query |-> EncodeURIComponent(b.params.arguments.query),
                       count |-> CountOrDefault(b.params.arguments),
                       authorization |-> env.key,
                       settled |-> "pending"]
       /\ UNCHANGED reply

\* handleMcpRequest for a POST with the JSON body b.
McpRequest(b) ==
  /\ mpc \in {"idle", "responded"}
  /\ body' = b
  /\ IF b.method = "tools/list"
     THEN /\ Respond(RpcResult(b.id, [tools |-> << ToolName >>]))
          /\ outbound' = NoFetch
     ELSE IF b.method = "tools/call"
     THEN IF b.params = Undefined
          THEN /\ Respond(InternalServerError)
               /\ outbound' = NoFetch
          ELSE IF b.params.name /= ToolName
          THEN /\ Respond(RpcError(b.id, 404,
                                   << "Tool not found: ", b.params.name >>))
               /\ outbound' = NoFetch
          ELSE ToolHandler(b)
     ELSE IF b.method = "initialize"
     THEN /\ Respond(RpcResult(b.id, [protocolVersion |-> "2024-11-05"]))
          /\ outbound' = NoFetch
     ELSE /\ Respond(RpcError(b.id, 404, << "Method not found" >>))
          /\ outbound' = NoFetch
  /\ UNCHANGED << env, hpc, hreq, response, searches,
                  scrollVars >>
  /\ UNCHANGED << batchVars, searchVars, cacheVars >>

\* fetch rejected: the error passes through the catch block of
\* searchXiaohongshuWorker into the catch block of the tool handler.
FetchReject(message) ==
  /\ mpc = "fetch"
  /\ outbound' = [outbound EXCEPT !.settled = "rejected"]
  /\ Respond(RpcResult(body.id, ToolError(message)))
  /\ UNCHANGED << env, body, hpc, hreq, response, searches,
                  scrollVars >>
  /\ UNCHANGED << batchVars, searchVars, cacheVars >>

\* fetch resolved with a response that is not ok.
FetchNotOk(statusText) ==
  /\ mpc = "fetch"
  /\ outbound' = [outbound EXCEPT !.settled = "notOk"]
  /\ Respond(RpcResult(body.id,
                       ToolError(<< "API request failed: ", statusText >>)))
  /\ UNCHANGED << env, body, hpc, hreq, response, searches,
                  scrollVars >>
  /\ UNCHANGED << batchVars, searchVars, cacheVars >>

\* fetch resolved with an ok response: response.json() is awaited.
FetchOk ==
  /\ mpc = "fetch"
  /\ outbound' = [outbound EXCEPT !.settled = "ok"]
  /\ mpc' = "json"
  /\ UNCHANGED << env, body, reply, hpc, hreq, response, searches,
                  scrollVars >>
  /\ UNCHANGED << batchVars, searchVars, cacheVars >>

\* response.json() rejected: the body of the service's answer is not JSON.
JsonReject ==
  /\ mpc = "json"
  /\ outbound' = [outbound EXCEPT !.settled = "notJson"]
  /\ Respond(RpcResult(body.id, ToolError(<< "Unexpected token" >>)))
  /\ UNCHANGED << env, body, hpc, hreq, response, searches,
                  scrollVars >>
  /\ UNCHANGED << batchVars, searchVars, cacheVars >>

\* response.json() resolved with `payload`.
JsonResolve(payload) ==
  /\ mpc = "json"
  /\ Respond(RpcResult(body.id, Render(body.params.arguments.query, payload)))
  /\ UNCHANGED << env, body, outbound, hpc, hreq, response, searches,
                  scrollVars >>
  /\ UNCHANGED << batchVars, searchVars, cacheVars >>

\* ---------------------------------------------- the Worker specification

WorkerEnvs == [url : BOOLEAN, key : BOOLEAN]

WorkerQueries == { << "c" >>, << "C", " ", ":" >> }

\* The arguments of a tools/call request: absent, or an object with a query
\* and possibly a count.
WorkerArguments ==
  {Undefined}
    \cup {[query |-> q] : q \in WorkerQueries}
    \cup {[query |-> q, count |-> 2] : q \in WorkerQueries}

WorkerBodies ==
  {[method |-> m, id |-> 1] : m \in {"tools/list", "initialize", "ping"}}
    \cup {[method |-> "tools/call", id |-> 3, params |-> Undefined]}
    \cup {[method |-> "tools/call", id |-> 3,
           params |-> [name |-> n, arguments |-> a]] :
            n \in {ToolName, "other"}, a \in WorkerArguments}

\* What the scraping service may answer with.
WorkerPayloads ==
  { [kind |-> "array", items |-> << >>],
    [kind |-> "array",
     items |-> JsonNotes(<< DegradedNote(NoRef),
                            FullNote(NoRef, RichDetail) >>)],
    [kind |-> "array", items |-> << [title |-> "t"] >>],
    [kind |-> "null"],
    [kind |-> "object"] }

InitWorker ==
  /\ BatchQuiet
  /\ SearchIdle
  /\ CacheIdle
  /\ hpc = [r \in Reqs |-> "idle"]
  /\ hreq = [r \in Reqs |-> NoRequest]
  /\ response = [r \in Reqs |-> NoResponse]
  /\ searches = [r \in Reqs |-> 0]
  /\ ScrollIdle
  /\ env \in WorkerEnvs
  /\ mpc = "idle"
  /\ body = NoBody
  /\ outbound = NoFetch
  /\ reply = NoReply

NextWorker ==
  \/ \E kind \in {"notPost", "notJson"} : McpMalformed(kind)
  \/ \E b \in WorkerBodies : McpRequest(b)
  \/ \E message \in {<< "fetch failed" >>} : FetchReject(message)
  \/ \E statusText \in {"Not Found", ""} : FetchNotOk(statusText)
  \/ FetchOk
  \/ JsonReject
  \/ \E payload \in WorkerPayloads : JsonResolve(payload)

SpecWorker == InitWorker /\ [][NextWorker]_vars

\* ------------------------------------- the concurrent-search specification

\* searchXiaohongshu(query, n) is called, the site showing `listing` for
\* the query: it awaits chromium.launch.
SearchXiaohongshu(r, listing, n) ==
  /\ spc[r] = "idle"
  /\ xpc[r] = "idle"
  /\ spc' = [spc EXCEPT ![r] = "launch"]
  /\ dom' = [dom EXCEPT ![r] = listing]
  /\ count' = [count EXCEPT ![r] = n]
  /\ UNCHANGED << xpc, noteLinks, concurrency, queue, results, notes, wpc,
                  noteInfo, index, notePage, note, fate, pulls, pagesOpened,
                  softTimeout, waited >>
  /\ UNCHANGED << envCookies, cookieFile, validSessions, browser,
                  ctxCookies, pageUrl, cookiesLoaded, isLoggedIn,
                  loginSuccess, pollI, loginPage, loginDetected, snapshot,
                  err, decided, loginPath, loginCycles, polls, lastVerify >>
  /\ UNCHANGED nonPipelineVars

\* The positions of getNoteDetail: from the call of context.newPage() to the
\* settling of notePage.close().
InFetch == {"newPage", "goto", "waitForSelector", "detailTitle", "evaluate",
            "close"}

\* A worker of request r is inside getNoteDetail.
FetchActive(r) == \E w \in Workers : wpc[r][w] \in InFetch

\* The search of request 1 has been called.  COOKIES holds a session the
\* site rejects, or the cookie file holds one it accepts.
InitOverlap ==
  /\ InitSearch
  /\ \/ /\ envCookies = "envSession"
        /\ cookieFile = "absent"
        /\ validSessions = {}
     \/ /\ envCookies = "absent"
        /\ cookieFile = "fileSession"
        /\ validSessions = {"fileSession"}

\* The count of the second request.
OverlapCount == 7

\* The handler of a second GET /search calls searchXiaohongshu while a
\* worker of the first search is fetching an item; nothing makes it wait.
\* (A second request is followed when the first asked for one note, and the
\* two searches are followed together only as long as neither handleLogin
\* had to poll a second time.)
NextOverlap ==
  \/ /\ FetchActive(1)
     /\ count[1] = 1
     /\ pollI[1] = 0
     /\ SearchXiaohongshu(2, ListingC, OverlapCount)
  \/ SearchStep(1)
  \/ pollI[2] = 0 /\ SearchStep(2)
  \/ NextBatch

SpecOverlap == InitOverlap /\ [][NextOverlap]_vars

\* ------------------------------------------------- properties of the batch

Returned(r) == xpc[r] = "returned"

FetchesInFlight(r) == Cardinality({w \in Workers : wpc[r][w] \in InFetch})

OpenPages(r) == Cardinality({w \in Workers : notePage[r][w] = "open"})

WorkersStarted(r) == Cardinality({w \in Workers : wpc[r][w] /= "none"})

AllFields == {"title", "content", "author", "authorDesc", "link", "likes",
              "collects", "comments", "tags", "images"}

BasicFields == {"title", "content", "author", "link"}

FetchFailed(r, i) == fate[r][i].how \in {"newPageErr", "gotoErr"}

\* C1: when extractNotes returns for N >= 1 references, whatever the
\* interleaving of the workers and whichever items failed, it returns exactly
\* N records and record i carries the link of reference i.
C1_OrderPreserved ==
  \A r \in Reqs :
    (Returned(r) /\ Len(noteLinks[r]) >= 1) =>
      /\ Len(notes[r]) = Len(noteLinks[r])
      /\ \A i \in 1 .. Len(noteLinks[r]) :
           notes[r][i].link = noteLinks[r][i].link

\* A batch over four references, two of them with the same link, returned
\* although the fetch of the first reference failed.
C1_Witness ==
  /\ Returned(1)
  /\ Len(noteLinks[1]) = 4
  /\ noteLinks[1][1].link = noteLinks[1][3].link
  /\ FetchFailed(1, 1)
  /\ fate[1][3].how = "ok"

C3_FaultIsolation ==
  \A r \in Reqs :
    (Returned(r) /\ Len(noteLinks[r]) >= 1) =>
      /\ Len(notes[r]) = Len(noteLinks[r])
      /\ \A i \in 1 .. Len(noteLinks[r]) :
           /\ fate[r][i].fetches = 1
           /\ fate[r][i].how /= "none"
           /\ FetchFailed(r, i) =>
                /\ DOMAIN notes[r][i] = BasicFields
                /\ notes[r][i].title = noteLinks[r][i].title
                /\ notes[r][i].author = noteLinks[r][i].author
                /\ notes[r][i].link = noteLinks[r][i].link
                /\ notes[r][i].content = "Failed to get content"
           /\ ~FetchFailed(r, i) =>
                /\ DOMAIN notes[r][i] = AllFields
                /\ notes[r][i].content /= "Failed to get content"

\* Three references, the navigation of the middle one failed, the two others
\* were extracted.
C3_Witness ==
  /\ Returned(1)
  /\ Len(noteLinks[1]) = 3
  /\ fate[1][1].how = "ok"
  /\ fate[1][2].how = "gotoErr"
  /\ fate[1][3].how = "ok"
  /\ Len(notes[1]) = 3
  /\ notes[1][1].content = "dC"
  /\ notes[1][3].content = "dC"

\* C4: with no reference discovered extractNotes never enters the worker
\* phase: it returns the empty array, no worker was started and no item page
\* was opened.
C4_ZeroInputShortCircuit ==
  \A r \in Reqs :
    /\ xpc[r] = "workers" => Len(noteLinks[r]) >= 1
    /\ (Returned(r) /\ Len(noteLinks[r]) = 0) =>
         /\ notes[r] = <<>>
         /\ WorkersStarted(r) = 0
         /\ pagesOpened[r] = 0
         /\ concurrency[r] = 0

\* extractNotes returned on a listing page whose only requested element has
\* no link.
C4_Witness ==
  /\ Returned(1)
  /\ count[1] >= 1
  /\ Len(dom[1]) >= 1
  /\ noteLinks[1] = <<>>
  /\ notes[1] = <<>>

\* ------------------------------------------------ properties of the search

\* The exceptions that leave searchXiaohongshu, by the await that raised them.
SearchFailures == {"launch", "newContext", "newPage", "cookiesEnv",
                   "gotoExplore", "browserClose", "loginFailed",
                   "loginCleanup", "gotoSearch", "scroll"}

\* The call completed with "User login failed, unable to continue search".
SessionUnavailable(r) == spc[r] = "threw" /\ err[r] = "loginFailed"

\* C5 as stated: a search that fails fails only because the interactive login
\* cycle was run and did not detect a login.
C5_FailsOnlyWithSessionUnavailable ==
  \A r \in Reqs :
    spc[r] = "threw" =>
      /\ err[r] = "loginFailed"
      /\ loginCycles[r] = 1
      /\ ~loginSuccess[r]

\* C5 amended: a finished search either returned the array of extractNotes
\* or threw; it throws for the failed login cycle and also for every
\* rejected browser launch, context, page, navigation, scroll or close and
\* for an unusable COOKIES value; the login failure is thrown only after a
\* cycle that detected no login; failed item fetches, an unreadable cookie
\* file and a failed saveCookies never make it throw.
C5_SearchOutcomes ==
  \A r \in Reqs :
    /\ spc[r] = "threw" => err[r] \in SearchFailures
    /\ spc[r] = "returned" =>
         /\ err[r] = "none"
         /\ Returned(r)
         /\ Len(notes[r]) = Len(noteLinks[r])
    /\ err[r] = "loginFailed" =>
         /\ loginPath[r]
         /\ loginCycles[r] = 1
         /\ ~loginDetected[r]
         /\ ~loginSuccess[r]
    /\ (spc[r] \in {"finalClose", "returned"} /\ Returned(r)) =>
         err[r] = "none"

\* A search returned degraded records although no cookie source was usable
\* at first: the user logged in, every item navigation failed.
C5_Witness ==
  /\ spc[1] = "returned"
  /\ loginCycles[1] = 1
  /\ Len(notes[1]) = 2
  /\ \A i \in 1 .. 2 : FetchFailed(1, i)
  /\ cookieFile = "malformed"

\* C10: the manual-login branch is taken exactly when the first loadCookies
\* returned false or checkLoginStatus returned false on the explore page;
\* before that decision it is not taken, handleLogin runs only on that
\* branch, and at most once per call.
C10_LoginDecision ==
  \A r \in Reqs :
    /\ loginCycles[r] <= 1
    /\ loginCycles[r] = 1 => loginPath[r]
    /\ ~decided[r] => ~loginPath[r]
    /\ decided[r] => (loginPath[r] <=> (~cookiesLoaded[r] \/ ~isLoggedIn[r]))

\* The cookies were attached but the explore page showed the login
\* container: one login cycle ran, the user logged in and the search
\* returned.
C10_Witness ==
  /\ spc[1] = "returned"
  /\ cookiesLoaded[1]
  /\ ~isLoggedIn[1]
  /\ loginPath[1]
  /\ loginCycles[1] = 1

\* ------------------------------------------------- properties of the cache

\* C6: a get that follows a set of the same (normalized) key, with no set of
\* that key and no clear in between and at most CACHE_EXPIRY_MS between the
\* two, returns the payload that was set.
C6_RoundTrip ==
  (/\ lastCall.op = "get"
   /\ lastCall.key \in DOMAIN written
   /\ lastCall.at - written[lastCall.key].at <= CACHE_EXPIRY_MS)
    => lastCall.ret = Array(written[lastCall.key].data)

\* A get made exactly CACHE_EXPIRY_MS after the set returned its two records,
\* one of them without authorDesc.
C6_Witness ==
  /\ lastCall.op = "get"
  /\ cpc[1] = "returned"
  /\ lastCall.key \in DOMAIN written
  /\ lastCall.at - written[lastCall.key].at = CACHE_EXPIRY_MS
  /\ lastCall.ret =
       Array(<< DegradedNote(SampleRef), FullNote(SampleRef, SparseDetail) >>)

\* A get by caller c returns in this step.
GetReturns(c) ==
  /\ cargs'[c].op = "get"
  /\ cpc'[c] = "returned"
  /\ cpc[c] /= "returned" \/ calls' /= calls

\* The get of caller c addressed an entry that was older than
\* CACHE_EXPIRY_MS when the call was made.
OnExpiredEntry(c) ==
  /\ chist'[c].target /= NoEntry
  /\ chist'[c].start - chist'[c].target.timestamp > CACHE_EXPIRY_MS

KeyOf(a) == GenerateKey(a.query, a.count)

\* C7 as stated: when a get on an entry older than CACHE_EXPIRY_MS returns,
\* it returns null and the entry is neither in memory nor in the file.
C7_ExpiredEntryRemoved ==
  [][\A c \in Reqs :
       (GetReturns(c) /\ OnExpiredEntry(c)) =>
         /\ cret'[c] = Null
         /\ KeyOf(cargs'[c]) \notin DOMAIN cache'
         /\ KeyOf(cargs'[c]) \notin DOMAIN ReadStore(cacheFile')]_vars

\* C7 amended: when a get on an entry older than CACHE_EXPIRY_MS returns, it
\* returns null and the entry is not in memory; the entry is not in the file
\* either unless a file operation of that get (mkdir, readFile, writeFile)
\* failed.
C7_ExpiredEntryRemovedUnlessIoFailed ==
  [][\A c \in Reqs :
       (GetReturns(c) /\ OnExpiredEntry(c)) =>
         /\ cret'[c] = Null
         /\ KeyOf(cargs'[c]) \notin DOMAIN cache'
         /\ ~chist'[c].ioFailed =>
              KeyOf(cargs'[c]) \notin DOMAIN ReadStore(cacheFile')]_vars

\* A get has returned null for an entry set in this run that had grown
\* older than CACHE_EXPIRY_MS: get deleted it and rewrote the file.
C7_Witness ==
  /\ cargs[1].op = "get"
  /\ cpc[1] = "returned"
  /\ chist[1].target /= NoEntry
  /\ chist[1].target.timestamp >= InitialNow
  /\ chist[1].start - chist[1].target.timestamp > CACHE_EXPIRY_MS
  /\ ~chist[1].ioFailed
  /\ cret[1] = Null
  /\ KeyOf(cargs[1]) \notin DOMAIN cache
  /\ cacheFile.kind = "json"
  /\ KeyOf(cargs[1]) \notin DOMAIN cacheFile.store

\* C8: a get addresses the entry a set wrote exactly when the counts are
\* equal and the queries are equal after lowercasing and trimming; the get
\* then returns the payload of that set.
C8_KeyNormalization ==
  (cargs[1].op = "set" /\ cargs[2].op = "get" /\ cpc[2] = "returned") =>
    /\ (cret[2] /= Null) <=>
         /\ cargs[1].count = cargs[2].count
         /\ Trim(ToLowerCase(cargs[1].query))
              = Trim(ToLowerCase(cargs[2].query))
    /\ cret[2] /= Null => cret[2] = Array(cargs[1].data)

\* get("c", 5) has returned what set("C ", 5) stored.
C8_Witness ==
  /\ cargs[1].op = "set"
  /\ cargs[1].query = << "C", " " >>
  /\ cargs[1].count = 5
  /\ cargs[2].op = "get"
  /\ cargs[2].query = << "c" >>
  /\ cargs[2].count = 5
  /\ cpc[2] = "returned"
  /\ cret[2] = Array(KeyPayload)

\* ----------------------------------------------- properties of the handler

\* Nothing of searchXiaohongshu has happened for request r.
Untouched(r) ==
  /\ spc[r] = "idle"
  /\ xpc[r] = "idle"
  /\ browser[r] = "null"
  /\ ctxCookies[r] = "none"
  /\ loginCycles[r] = 0
  /\ pagesOpened[r] = 0

\* C9: until searchCache.get has returned nothing of the search has
\* happened; when it returned an array (empty or not) the request is answered
\* with that stored payload and no search is ever started; when it returned
\* null searchXiaohongshu is called once, and a 200 answer carries its
\* result, which is by then stored in the cache under the request's key; a
\* search that threw is answered 500 and nothing is stored.
C9_CacheFirst ==
  \A r \in Reqs :
    /\ hpc[r] \in {"idle", "get"} => Untouched(r) /\ searches[r] = 0
    /\ (cargs[r].op = "get" /\ cpc[r] = "returned" /\ cret[r] /= Null) =>
         /\ Untouched(r)
         /\ searches[r] = 0
         /\ cret[r] = Array(chist[r].target.data)
         /\ hpc[r] = "responded" =>
              response[r] = [status |-> 200,
                             body |-> JsonNotes(chist[r].target.data)]
    /\ searches[r] <= 1
    /\ hpc[r] \in {"search", "set"} => searches[r] = 1
    /\ (hpc[r] = "responded" /\ response[r].status = 200
          /\ searches[r] = 1) =>
         /\ spc[r] = "returned"
         /\ KeyOf(hreq[r]) \in DOMAIN cache
         /\ cache[KeyOf(hreq[r])].data = notes[r]
         /\ response[r].body = JsonNotes(notes[r])
    /\ (hpc[r] = "responded" /\ response[r].status = 500) =>
         /\ spc[r] = "threw"
         /\ searches[r] = 1
         /\ KeyOf(hreq[r]) \notin DOMAIN cache

\* A request was answered 200 with the empty array the cache held for its
\* key; no browser was launched.
C9_Witness ==
  /\ hpc[1] = "responded"
  /\ response[1] = [status |-> 200, body |-> << >>]
  /\ cret[1] = Array(<< >>)
  /\ searches[1] = 0
  /\ Untouched(1)

\* ------------------------------------------------ properties of the session

\* The positions of searchXiaohongshu between the return of the loadCookies
\* call on the context that performs the search and the write of the
\* end-of-search saveCookies.
AfterLoadCookies == {"gotoExplore", "probe", "gotoSearch", "waitFeeds",
                     "waitFeedsMore", "scroll", "scrollSettle",
                     "extractNotes", "saveCookies", "saveWrite"}

\* The search goes on after handleLogin returned true.
ResumedAfterLogin(r) ==
  /\ loginPath[r]
  /\ loginSuccess[r]
  /\ spc[r] \in AfterLoadCookies

\* C11 as stated: once handleLogin has returned true, the cookie file holds
\* the session the user obtained, and the context the search resumes on
\* carries exactly that session.
C11_SessionReuse ==
  \A r \in Reqs :
    ResumedAfterLogin(r) =>
      /\ cookieFile = "loginSession"
      /\ ctxCookies[r] = "loginSession"
      /\ SessionValid(ctxCookies[r], validSessions)

\* COOKIES holds a session the site rejects; the user logged in and the
\* session was written to the cookie file; the search resumed on a context
\* that carries the rejected COOKIES session.
C11_Witness ==
  /\ envCookies = "envSession"
  /\ "envSession" \notin validSessions
  /\ ResumedAfterLogin(1)
  /\ spc[1] = "gotoSearch"
  /\ cookieFile = "loginSession"
  /\ ctxCookies[1] = "envSession"
  /\ ~SessionValid(ctxCookies[1], validSessions)

\* C12: with COOKIES set loadCookies never reads the cookie file, and the
\* context a search runs on carries exactly the COOKIES session; the cookie
\* file is the source only when COOKIES is not set.
C12_EnvironmentFirst ==
  \A r \in Reqs :
    /\ envCookies /= "absent" =>
         /\ spc[r] \notin {"readCookieFile", "addCookiesFile"}
         /\ spc[r] \in AfterLoadCookies =>
              /\ envCookies /= "malformed"
              /\ ctxCookies[r] = envCookies
    /\ (envCookies = "absent" /\ spc[r] \in AfterLoadCookies) =>
         ctxCookies[r] \in {"none", cookieFile}

\* Both sources hold a session: the context that is verified on the explore
\* page carries the COOKIES session.
C12_Witness ==
  /\ envCookies = "envSession"
  /\ cookieFile = "fileSession"
  /\ spc[1] = "probe"
  /\ cookiesLoaded[1]
  /\ ctxCookies[1] = "envSession"

\* C13: with COOKIES not set and no cookie file, loadCookies returns false:
\* it does not throw, addCookies is never called and the context carries no
\* cookie.
C13_NoSourceNotLoaded ==
  (envCookies = "absent" /\ cookieFile = "absent") =>
    \A r \in Reqs :
      /\ spc[r] \notin {"addCookiesEnv", "addCookiesFile"}
      /\ err[r] /= "cookiesEnv"
      /\ ~cookiesLoaded[r]
      /\ spc[r] \in AfterLoadCookies => ctxCookies[r] = "none"

\* loadCookies has returned false to a search started with neither source,
\* which goes on to the explore page.
C13_Witness ==
  /\ envCookies = "absent"
  /\ cookieFile = "absent"
  /\ spc[1] = "gotoExplore"
  /\ ~cookiesLoaded[1]
  /\ ctxCookies[1] = "none"
  /\ err[1] = "none"

\* ------------------------------------------------ properties of item pages

\* The positions of getNoteDetail at which its page exists.
PageHeld == {"goto", "waitForSelector", "detailTitle", "evaluate", "close"}

C15_VerifyTotal ==
  /\ [](/\ lastVerify.ret \in BOOLEAN
        /\ UrlIndicatesLogin(lastVerify.url) => ~lastVerify.ret
        /\ lastVerify.marker = "present" => ~lastVerify.ret
        /\ lastVerify.threw => ~lastVerify.ret
        /\ lastVerify.ret =>
             /\ ~UrlIndicatesLogin(lastVerify.url)
             /\ lastVerify.marker = "absent"
             /\ ~lastVerify.threw)
  /\ [][\A r \in Reqs :
          /\ (spc[r] = "probe" /\ spc'[r] /= "probe") =>
               /\ spc'[r] \in {"closeHeadless", "gotoSearch"}
               /\ isLoggedIn'[r] = lastVerify'.ret
               /\ err'[r] = "none"
          /\ (spc[r] = "loginPoll" /\ spc'[r] /= "loginPoll") =>
               /\ spc'[r] \in {"loginPollWait", "loginCookies",
                               "loginClosePage"}
               /\ loginDetected'[r] = lastVerify'.ret
               /\ err'[r] = "none"]_vars

\* The cookies were attached, page.$ raised on the explore page and
\* checkLoginStatus returned false: the search turned to the manual login.
C15_Witness ==
  /\ spc[1] = "closeHeadless"
  /\ cookiesLoaded[1]
  /\ lastVerify.url = UrlExplore
  /\ lastVerify.threw
  /\ ~lastVerify.ret
  /\ ~isLoggedIn[1]
  /\ err[1] = "none"

\* C16: handleLogin calls checkLoginStatus at most 150 times; while it polls
\* every earlier poll returned false; it leaves the loop at the first poll
\* that returns true and then returns true, and after 150 polls that
\* returned false it returns false.
C16_BoundedPolling ==
  \A r \in Reqs :
    /\ polls[r] <= LoginPolls
    /\ pollI[r] <= LoginPolls
    /\ spc[r] = "loginPollWait" =>
         /\ polls[r] = pollI[r]
         /\ pollI[r] < LoginPolls
         /\ ~loginDetected[r]
    /\ spc[r] = "loginPoll" =>
         /\ polls[r] = pollI[r] + 1
         /\ ~loginDetected[r]
    /\ (spc[r] \in {"loginCookies", "loginWrite", "loginClosePage",
                    "loginCloseContext"} /\ loginDetected[r]) =>
         polls[r] = pollI[r] + 1
    /\ spc[r] \in {"loginCookies", "loginWrite"} => loginDetected[r]
    /\ (spc[r] \in {"loginClosePage", "loginCloseContext"}
          /\ ~loginDetected[r] /\ polls[r] > 0) =>
         /\ polls[r] = LoginPolls
         /\ pollI[r] = LoginPolls
    /\ pollI[r] = LoginPolls => ~loginDetected[r]
    /\ spc[r] = "closeHeadful" => loginSuccess[r] = loginDetected[r]

\* All 150 polls returned false: handleLogin has left its loop and is about
\* to return false.
C16_Witness ==
  /\ spc[1] = "loginClosePage"
  /\ polls[1] = LoginPolls
  /\ pollI[1] = LoginPolls
  /\ ~loginDetected[1]
  /\ ~lastVerify.ret

\* The positions of a search on the manual-login branch before handleLogin
\* has returned true, and those at which it ends.
LoginBranch == {"closeHeadless", "launchHeadful", "loginNewContext",
                "loginNewPage", "loginGoto", "loginSettle", "loginPollWait",
                "loginPoll", "loginCookies", "loginWrite", "loginClosePage",
                "loginCloseContext", "closeHeadful", "finalClose", "threw"}

\* No listing navigation, link discovery or item fetch has happened for r.
NoListingWork(r) ==
  /\ xpc[r] = "idle"
  /\ noteLinks[r] = << >>
  /\ pagesOpened[r] = 0
  /\ pageUrl[r] /= UrlSearch

\* handleLogin has returned false to the search r, which takes its next step.
LoginFailedStep(r) ==
  /\ spc[r] = "closeHeadful"
  /\ ~loginSuccess[r]
  /\ spc'[r] /= spc[r]

\* The finally block of a search that threw the login failure completes.
LoginFailureLeaves(r) ==
  /\ spc[r] = "finalClose"
  /\ err[r] = "loginFailed"
  /\ spc'[r] /= spc[r]

\* C17 as stated: after handleLogin returned false the search throws the
\* login failure, and that is the exception its caller receives.
C17_LoginFailureIsTheError ==
  [][\A r \in Reqs :
       /\ LoginFailedStep(r) => err'[r] = "loginFailed"
       /\ LoginFailureLeaves(r) =>
            (spc'[r] = "threw" /\ err'[r] = "loginFailed")]_vars

\* C17 amended: a search on the manual-login branch does no listing
\* navigation, link discovery, item fetch or end-of-search saveCookies
\* unless handleLogin returned true, and it never returns; after handleLogin
\* returned false it throws, either the login failure or the rejection of a
\* browser.close().
C17_LoginFailureAborts ==
  /\ [](\A r \in Reqs :
          (loginPath[r] /\ ~loginSuccess[r]) =>
            /\ spc[r] \in LoginBranch
            /\ NoListingWork(r)
            /\ spc[r] = "threw" => err[r] \in SearchFailures)
  /\ [][\A r \in Reqs :
          /\ LoginFailedStep(r) =>
               /\ spc'[r] = "finalClose"
               /\ err'[r] \in {"loginFailed", "browserClose"}
          /\ LoginFailureLeaves(r) =>
               /\ spc'[r] = "threw"
               /\ err'[r] \in {"loginFailed", "browserClose"}]_vars

\* The explore page redirected to the login page, handleLogin returned
\* false and the search threw the login failure without having navigated to
\* the listing.
C17_Witness ==
  /\ spc[1] = "threw"
  /\ err[1] = "loginFailed"
  /\ loginCycles[1] = 1
  /\ ~loginDetected[1]
  /\ lastVerify.url = UrlLogin
  /\ NoListingWork(1)

\* ------------------------------------------ properties of set and clear

\* The set of caller c returns in this step.
SetReturns(c) ==
  /\ cargs[c].op = "set"
  /\ cpc[c] = "setSave"
  /\ cpc'[c] = "returned"

\* The store holds under the key of call `a` an entry with the payload of
\* `a`, and every key of the store is the normalized key of its entry.
HoldsPayload(store, a) ==
  /\ KeyOf(a) \in DOMAIN store
  /\ store[KeyOf(a)].data = a.data
  /\ store[KeyOf(a)].query = a.query
  /\ store[KeyOf(a)].count = a.count
  /\ \A k \in DOMAIN store : k = KeyOf(store[k])

\* The file holds the JSON text of the entry the store has under `key`.
Persisted(file, store, key) ==
  /\ file.kind = "json"
  /\ key \in DOMAIN file.store
  /\ file.store[key] = JsonStringify(store)[key]

\* C18 as stated: when set returns, the store holds under the normalized key
\* the payload with the time of the call as timestamp, and the file holds
\* that entry.
C18_SetStoresAndPersists ==
  [][\A c \in Reqs :
       SetReturns(c) =>
         /\ HoldsPayload(cache', cargs[c])
         /\ cache'[KeyOf(cargs[c])].timestamp = chist[c].start
         /\ Persisted(cacheFile', cache', KeyOf(cargs[c]))]_vars

\* C18 amended: when set returns, the store holds under the normalized key
\* the payload with a timestamp read between the call and the return (after
\* init completed), whatever the key held before; the file holds that entry
\* unless a file operation of the call failed.
C18_SetStores ==
  [][\A c \in Reqs :
       SetReturns(c) =>
         /\ HoldsPayload(cache', cargs[c])
         /\ cache'[KeyOf(cargs[c])].timestamp >= chist[c].start
         /\ cache'[KeyOf(cargs[c])].timestamp <= now'
         /\ cache'[KeyOf(cargs[c])].timestamp = written'[KeyOf(cargs[c])].at
         /\ ~chist'[c].ioFailed =>
              Persisted(cacheFile', cache', KeyOf(cargs[c]))]_vars

\* A set has returned after replacing the entry an earlier set of this run
\* had stored under the same key with another payload and an older
\* timestamp; the file holds the new entry.
C18_Witness ==
  /\ cargs[1].op = "set"
  /\ cpc[1] = "returned"
  /\ ~chist[1].ioFailed
  /\ chist[1].target /= NoEntry
  /\ chist[1].target.timestamp >= InitialNow
  /\ chist[1].target.data /= cargs[1].data
  /\ chist[1].target.query /= cargs[1].query
  /\ HoldsPayload(cache, cargs[1])
  /\ cache[KeyOf(cargs[1])].timestamp > chist[1].target.timestamp
  /\ Persisted(cacheFile, cache, KeyOf(cargs[1]))

\* The last call was a get, made after a clear, of a key no set has written
\* since the latest clear.
GetAfterClear ==
  /\ cleared
  /\ lastCall.op = "get"
  /\ lastCall.key \notin DOMAIN written

\* C19 as stated: when clear has returned the store and the file are empty,
\* and a get made after a clear is a miss unless its key was set since the
\* latest clear, whether or not the cache was initialized when clear was
\* called.
C19_ClearEmpties ==
  /\ \A c \in Reqs :
       (cargs[c].op = "clear" /\ cpc[c] = "returned") =>
         /\ cache = EmptyStore
         /\ cacheFile = JsonFile(EmptyStore)
  /\ GetAfterClear => lastCall.ret = Null

\* clear was the first call of the process and its write failed; the get
\* that followed initialized the cache from the file and returned the
\* records an earlier run had stored.
C19_Witness ==
  /\ GetAfterClear
  /\ cpc[1] = "returned"
  /\ cargs[1].op = "get"
  /\ lastCall.ret /= Null
  /\ chist[1].target /= NoEntry
  /\ chist[1].target.timestamp < InitialNow
  /\ lastCall.ret = Array(chist[1].target.data)

\* ------------------------------------- properties of cache I/O failures

\* The positions of a SearchCache call: none of them is an exception.
CachePositions == {"idle", "mkdir", "readFile", "returned"} \cup SavePositions

\* The value a completed call of operation `op` resolved with is of the
\* operation's result type.
WellTyped(op, v) ==
  IF op = "get" THEN v = Null \/ DOMAIN v = {"array"}
  ELSE IF op = "stats"
  THEN DOMAIN v = {"totalEntries", "oldestEntry", "newestEntry"}
  ELSE v = Void

\* C20: get, set, getStats and clear always complete with a value, also
\* when mkdir, readFile or writeFile failed; a get whose file operations
\* failed is a miss or returns the addressed entry; a request is answered 500
\* only when searchXiaohongshu threw, and a request whose search returned is
\* answered 200 with the result of the search whatever happened to the
\* cache file.
C20_CacheFailuresNonFatal ==
  /\ \A c \in Reqs :
       /\ cpc[c] \in CachePositions
       /\ cpc[c] = "returned" => WellTyped(cargs[c].op, cret[c])
       /\ (cpc[c] = "returned" /\ cargs[c].op = "get" /\ chist[c].ioFailed) =>
            (cret[c] = Null \/ cret[c] = Array(chist[c].target.data))
  /\ \A r \in Reqs :
       /\ (hpc[r] = "responded" /\ response[r].status = 500) =>
            spc[r] = "threw"
       /\ (hpc[r] = "get" /\ cpc[r] = "returned" /\ cret[r] = Null) =>
            ENABLED CacheMiss(r)
       /\ (hpc[r] = "responded" /\ spc[r] = "returned") =>
            response[r] = [status |-> 200, body |-> JsonNotes(notes[r])]

\* GET /cache/stats was answered although the cache directory could not be
\* created, and the request that followed was answered 200 with the result
\* of its search although the write of the store failed.
C20_Witness ==
  /\ cargs[2].op = "stats"
  /\ cpc[2] = "returned"
  /\ chist[2].ioFailed
  /\ cret[2].totalEntries = 0
  /\ hpc[1] = "responded"
  /\ cargs[1].op = "set"
  /\ chist[1].ioFailed
  /\ searches[1] = 1
  /\ response[1] = [status |-> 200, body |-> JsonNotes(notes[1])]
  /\ Len(notes[1]) = 2

\* ------------------------------------------------ properties of the Worker

\* The request handled last was a tools/call for search_xiaohongshu and has
\* been answered.
SearchCallAnswered ==
  /\ mpc = "responded"
  /\ body.method = "tools/call"
  /\ body.params /= Undefined
  /\ body.params.name = ToolName

\* The search of the request handled last could not be performed: no
\* service is configured, or the fetch was rejected or was not ok.
SearchNotPerformed ==
  \/ ~env.url
  \/ outbound.settled \in {"rejected", "notOk"}

\* C21: every answered tools/call request for search_xiaohongshu has status
\* 200 and a JSON-RPC result, and when the search could not be performed
\* the result has isError set and its text carries the error message.
C21_AlwaysToolResult ==
  SearchCallAnswered =>
    /\ reply.status = 200
    /\ "result" \in DOMAIN reply.json
    /\ SearchNotPerformed =>
         /\ "isError" \in DOMAIN reply.json.result
         /\ reply.json.result.isError
         /\ Len(reply.json.result.content[1].text) > 1

\* A tools/call for search_xiaohongshu without an arguments object was
\* answered 500 "Internal server error", with no JSON-RPC result.
C21_Witness ==
  /\ SearchCallAnswered
  /\ body.params.arguments = Undefined
  /\ reply = InternalServerError

\* ------------------------------------- properties of session verification

\* checkLoginStatus ran on the page of the context request r now holds: the
\* page is live (it was navigated after context.newPage) and the last
\* checkLoginStatus call saw the URL it shows.
VerifiedOnContext(r) ==
  /\ pageUrl[r] /= << >>
  /\ lastVerify.url = pageUrl[r]

\* C22 as stated: whenever performSearch starts the listing navigation, the
\* context it runs on, the first one or the one created after handleLogin,
\* has had checkLoginStatus run on a live page of it.
C22_VerifiedBeforeListing ==
  \A r \in Reqs : spc[r] = "gotoSearch" => VerifiedOnContext(r)

\* After a successful login the search resumed on a new context and started
\* the listing navigation on a page that was never navigated and never
\* probed; the context carries a session the site rejects.
C22_Witness ==
  /\ spc[1] = "gotoSearch"
  /\ loginPath[1]
  /\ loginSuccess[1]
  /\ pageUrl[1] = << >>
  /\ ~SessionValid(ctxCookies[1], validSessions)

\* ------------------------------------ properties of concurrent searches

\* Request r is inside loadCookies, handleLogin or saveCookies.
SessionStepPositions ==
  {"addCookiesEnv", "readCookieFile", "addCookiesFile", "loginNewContext",
   "loginNewPage", "loginGoto", "loginSettle", "loginPollWait", "loginPoll",
   "loginCookies", "loginWrite", "loginClosePage", "loginCloseContext",
   "saveCookies", "saveWrite"}

\* C23 as stated: while a worker of any search is inside getNoteDetail, no
\* search is inside loadCookies, handleLogin or saveCookies.
C23_SessionOutsideBatch ==
  (\E r \in Reqs : FetchActive(r)) =>
    \A r \in Reqs : spc[r] \notin SessionStepPositions

\* The second request is writing the cookies of its login to the cookie
\* file while a worker of the first request is navigating to an item.
C23_Witness ==
  /\ spc[2] = "loginWrite"
  /\ \E w \in Workers : wpc[1][w] = "goto"
  /\ spc[1] = "extractNotes"

\* ------------------------------------ properties of cache initialization

\* The readFile of caller c's init settles and init assigns this.cache.
LoadStep(c) ==
  /\ cpc[c] = "readFile"
  /\ cpc'[c] /= "readFile"

\* The set of caller c has returned.
SetCompleted(c) == cargs[c].op = "set" /\ cpc[c] = "returned"

\* C24 as stated: init assigns the store at most once however the calls
\* interleave, and the assignment leaves in memory every entry a completed
\* set has put there.
C24_InitOnce ==
  /\ [](inits <= 1)
  /\ [][\A c, d \in Reqs :
          (LoadStep(c) /\ SetCompleted(d) /\ HoldsPayload(cache, cargs[d]))
            => HoldsPayload(cache', cargs[d])]_vars

\* A set and a get were called before the cache was initialized and no file
\* operation failed: the file was loaded twice, and the set has returned
\* although the second load put the entry of the earlier run back in its
\* place in memory.
C24_Witness ==
  /\ inits = 2
  /\ initialized
  /\ calls = 2
  /\ SetCompleted(1)
  /\ ~chist[1].ioFailed
  /\ cargs[2].op = "get"
  /\ cpc[2] = "returned"
  /\ ~chist[2].ioFailed
  /\ KeyOf(cargs[1]) \in DOMAIN cache
  /\ cache[KeyOf(cargs[1])].timestamp < InitialNow
  /\ ~HoldsPayload(cache, cargs[1])
  /\ cacheFile.kind = "json"
  /\ KeyOf(cargs[1]) \in DOMAIN cacheFile.store
  /\ cacheFile.store[KeyOf(cargs[1])].data = JsonNotes(cargs[1].data)
  /\ cacheFile.store[KeyOf(cargs[1])].timestamp >= InitialNow

\* ----------------------------------- properties of the initialization sweep

\* The readFile of caller c's init resolved with the text of a store; the
\* step runs cleanExpiredEntries on it.
SweepStep(c) ==
  /\ LoadStep(c)
  /\ cacheFile.kind = "json"
  /\ ~chist'[c].ioFailed

\* The save of the sweep settled and caller c's init completes.
SweepSaved(c) == cpc[c] = "sweepSave" /\ cpc'[c] /= "sweepSave"

\* What the sweep leaves: after it the store holds no entry that is expired
\* at the time of the sweep, and when the file held such an entry init
\* awaits the write of a text without it; until that write settles the
\* store stays as written.
SweepLeaves(c) ==
  /\ SweepStep(c) =>
       /\ \A k \in DOMAIN cache' : ~IsExpired(cache'[k], now)
       /\ (\E k \in DOMAIN cacheFile.store :
             IsExpired(cacheFile.store[k], now)) =>
            /\ cpc'[c] = "sweepSave"
            /\ DOMAIN cjson'[c] =
                 {k \in DOMAIN cacheFile.store :
                    ~IsExpired(cacheFile.store[k], now)}
  /\ SweepSaved(c) => JsonStringify(cache) = cjson[c]

\* C25 as stated: init leaves no entry in memory that was expired at sweep
\* time, and when the sweep removed an entry the file has been rewritten
\* without it by the time init completes.
C25_SweepAndRewrite ==
  [][\A c \in Reqs :
       /\ SweepLeaves(c)
       /\ SweepSaved(c) => cacheFile' = JsonFile(cjson[c])]_vars

\* C25 amended: the same, the file being rewritten unless the write failed,
\* in which case the file keeps the expired entry or is left truncated.
C25_SweepAndRewriteUnlessWriteFailed ==
  [][\A c \in Reqs :
       /\ SweepLeaves(c)
       /\ SweepSaved(c) =>
            \/ cacheFile' = JsonFile(cjson[c])
            \/ /\ chist'[c].ioFailed
               /\ cacheFile' \in {cacheFile, CorruptFile}]_vars

\* The first call of the process was getStats; its init found an expired
\* and an unexpired entry in the file, removed the expired one and rewrote
\* the file, and memory and file now hold the unexpired entry only.
C25_Witness ==
  /\ calls = 1
  /\ cargs[1].op = "stats"
  /\ cpc[1] = "returned"
  /\ ~chist[1].ioFailed
  /\ inits = 1
  /\ Cardinality(DOMAIN cache) = 1
  /\ \A k \in DOMAIN cache : ~IsExpired(cache[k], now)
  /\ cjson[1] = JsonStringify(cache)
  /\ cacheFile = JsonFile(cjson[1])

\* -------------------------------------------- properties of the TTL boundary

\* The get of caller c has looked its key up (it returned, or it awaits the
\* write that follows the deletion of an expired entry), the key had an
\* entry when the call was made and init, if the call ran it, loaded the
\* file.
GetDecided(c) ==
  /\ cargs[c].op = "get"
  /\ cpc[c] \in {"returned", "getSave"}
  /\ lastCall.op = "get"
  /\ lastCall.key = KeyOf(cargs[c])
  /\ chist[c].target /= NoEntry
  /\ ~chist[c].ioFailed \/ cpc[c] = "getSave"

\* C26: a get on a stored entry yields the entry's payload exactly when the
\* time of the lookup minus the entry's timestamp is at most CACHE_EXPIRY_MS
\* (an entry of exactly that age is a hit, one time unit more is a miss),
\* and yields null otherwise.
C26_TtlBoundary ==
  \A c \in Reqs :
    GetDecided(c) =>
      LET entry == chist[c].target
          age == lastCall.at - entry.timestamp
      IN /\ age <= CACHE_EXPIRY_MS => lastCall.ret = Array(entry.data)
         /\ age > CACHE_EXPIRY_MS => lastCall.ret = Null
         /\ cpc[c] = "returned" => cret[c] = lastCall.ret

\* A get found its entry one time unit older than CACHE_EXPIRY_MS in the
\* initialized cache: it deleted the entry and is writing the store back;
\* null is what it is going to return.
C26_Witness ==
  /\ cargs[1].op = "get"
  /\ cpc[1] = "getSave"
  /\ chist[1].target /= NoEntry
  /\ lastCall.at - chist[1].target.timestamp = CACHE_EXPIRY_MS + 1
  /\ lastCall.ret = Null
  /\ KeyOf(cargs[1]) \notin DOMAIN cache

\* ------------------------------------------------ properties of write-through

\* No call on searchCache is in progress, and at least one was made.
CacheQuiescent ==
  /\ calls > 0
  /\ \A c \in Reqs : cpc[c] \in {"idle", "returned"}

\* C27: whenever no cache operation is in progress, the file holds exactly
\* the entries of the in-memory store.
C27_WriteThrough ==
  CacheQuiescent => ReadStore(cacheFile) = JsonStringify(cache)

\* A clear was called while the init of a get awaited its readFile: init
\* then put the loaded entries into the store clear had emptied, clear's
\* write emptied the file, and both calls have returned.
C27_Witness ==
  /\ CacheQuiescent
  /\ initialized
  /\ inits = 1
  /\ cargs[1].op = "get"
  /\ cargs[2].op = "clear"
  /\ cret[1] /= Null
  /\ KeyOf(cargs[1]) \in DOMAIN cache
  /\ cacheFile = JsonFile(EmptyStore)

\* ------------------------------------------- properties of the worker timers

\* Worker w of request r holds the reference it pulled when it started.
HoldsFirstItem(r, w) ==
  /\ w < Len(noteLinks[r])
  /\ noteInfo[r][w].oid = FirstPull(noteLinks[r], w).oid

\* The reference worker w of request r holds has left the queue.
HasPulled(r, w) ==
  \E i \in 1 .. Len(pulls[r]) : pulls[r][i] = noteInfo[r][w].oid

\* C28 as stated: worker w has not pulled while its stagger timer is
\* pending before its first fetch, and it enters getNoteDetail having waited
\* w times 1000 ms for its first reference and 2000 ms for a later one.
C28_StaggerFirstPullOnly ==
  \A r \in Reqs, w \in Workers :
    /\ (wpc[r][w] = "stagger" /\ waited[r][w] = 0) => ~HasPulled(r, w)
    /\ wpc[r][w] \in InFetch =>
         waited[r][w] = IF HoldsFirstItem(r, w) THEN w * 1000 ELSE 2000

\* C28 amended: a worker pulls first and awaits its stagger timer with the
\* reference in hand, before every fetch: it enters getNoteDetail having
\* waited w times 1000 ms for its first reference and 2000 ms plus w times
\* 1000 ms for a later one.
C28_StaggerBeforeEveryFetch ==
  \A r \in Reqs, w \in Workers :
    /\ wpc[r][w] = "stagger" =>
         /\ HasPulled(r, w)
         /\ waited[r][w] = IF HoldsFirstItem(r, w) THEN 0 ELSE 2000
    /\ wpc[r][w] \in InFetch =>
         waited[r][w] =
           IF HoldsFirstItem(r, w) THEN w * 1000 ELSE 2000 + w * 1000

\* Worker 1 fetches its second reference: it waited the 2000 ms after its
\* first one and its own 1000 ms again.
C28_Witness ==
  /\ wpc[1][1] \in InFetch
  /\ ~HoldsFirstItem(1, 1)
  /\ HasPulled(1, 1)
  /\ Len(pulls[1]) = 4
  /\ waited[1][1] = 3000

\* ------------------------------------------ properties of the container wait

\* The records getNoteDetail builds after its try block ran to the end.
NormalRecords(info) == {FullNote(info, d) : d \in DetailData \cup {EmptyDetail}}

\* notePage.close() of worker w settles and getNoteDetail returns.
FetchReturns(r, w) == wpc[r][w] = "close" /\ wpc'[r][w] /= "close"

\* C29: a fetch whose container wait timed out goes on to the extraction and
\* does not take the failure path: the record it builds, and the worker
\* stores at the reference's index, has the complete shape and is built
\* from what the extraction gave, never the failure placeholder.
C29_SoftTimeout ==
  /\ [](\A r \in Reqs, w \in Workers :
          softTimeout[r][w] =>
            /\ wpc[r][w] \in {"detailTitle", "evaluate", "close"}
            /\ ~FetchFailed(r, index[r][w])
            /\ wpc[r][w] = "close" =>
                 /\ fate[r][index[r][w]].how \in {"ok", "evalErr"}
                 /\ note[r][w] \in NormalRecords(noteInfo[r][w])
                 /\ DOMAIN note[r][w] = AllFields
                 /\ note[r][w].content /= "Failed to get content")
  /\ [][\A r \in Reqs, w \in Workers :
          (FetchReturns(r, w) /\ softTimeout[r][w]) =>
            results'[r][index[r][w]] = note[r][w]]_vars

\* The container wait of worker 0 timed out, the extraction went on and
\* found everything: the complete record is built and the page is closing.
C29_Witness ==
  /\ softTimeout[1][0]
  /\ wpc[1][0] = "close"
  /\ fate[1][index[1][0]].how = "ok"
  /\ note[1][0] = FullNote(noteInfo[1][0], RichDetail)

\* ------------------------------------------ properties of extraction failures

\* The extraction of reference i of request r failed: page.evaluate rejected
\* on the page the navigation had reached.
ExtractionFailed(r, i) == fate[r][i].how = "evalErr"

\* C30: in the batch extractNotes returns, the record of a reference whose
\* extraction failed holds the reference's title, author and link and the
\* failure placeholder as content, and nothing else; every reference has
\* its record.
C30_ExtractionFailureDegrades ==
  \A r \in Reqs :
    (Returned(r) /\ Len(noteLinks[r]) >= 1) =>
      /\ Len(notes[r]) = Len(noteLinks[r])
      /\ \A i \in 1 .. Len(noteLinks[r]) :
           ExtractionFailed(r, i) =>
             /\ DOMAIN notes[r][i] = BasicFields
             /\ notes[r][i].title = noteLinks[r][i].title
             /\ notes[r][i].author = noteLinks[r][i].author
             /\ notes[r][i].link = noteLinks[r][i].link
             /\ notes[r][i].content = "Failed to get content"

\* A batch of three references returned; the extraction of the second one
\* failed and its record is the complete one with 'No content' and zero
\* counts, as for a note whose page shows nothing.
C30_Witness ==
  /\ Returned(1)
  /\ Len(noteLinks[1]) = 3
  /\ fate[1][1].how = "ok"
  /\ ExtractionFailed(1, 2)
  /\ fate[1][3].how = "ok"
  /\ Len(notes[1]) = 3
  /\ DOMAIN notes[1][2] = AllFields
  /\ notes[1][2].content = "No content"
  /\ notes[1][2].likes = 0
  /\ notes[1][2] = FullNote(noteLinks[1][2], SparseDetail)

\* ------------------------------------------- properties of the link discovery

\* The positions, among the first n elements of the listing, of the
\* elements that carry a link.
LinkedPositions(listing, n) ==
  {i \in 1 .. Min(Len(listing), n) : listing[i].href /= <<>>}

\* extractNoteLinks of request r returns in this step.
LinksReturned(r) == xpc[r] = "links" /\ xpc'[r] /= "links"

\* C31: extractNoteLinks returns at most `count` references, none with an
\* empty link, in the order of the listing; they are the elements with a
\* link among the first `count` elements of the listing, or, when reading
\* the listing failed, none at all, and then extractNotes returns [] rather
\* than throwing.
C31_LinkDiscovery ==
  [][\A r \in Reqs :
       LinksReturned(r) =>
         LET ls == noteLinks'[r] IN
           /\ Len(ls) <= count[r]
           /\ \A i \in 1 .. Len(ls) :
                /\ ls[i].link /= <<>>
                /\ ls[i].oid \in 1 .. Len(dom[r])
                /\ dom[r][ls[i].oid].href /= <<>>
           /\ \A i, j \in 1 .. Len(ls) : i < j => ls[i].oid < ls[j].oid
           /\ \/ {ls[i].oid : i \in 1 .. Len(ls)} =
                   LinkedPositions(dom[r], count[r])
              \/ /\ ls = <<>>
                 /\ xpc'[r] = "returned"
                 /\ notes'[r] = <<>>]_vars

\* Four elements of a six-element listing were read; the second has no
\* link, and the first, third and fourth were returned in that order.
C31_Witness ==
  /\ xpc[1] = "workers"
  /\ dom[1] = ListingA
  /\ count[1] = 4
  /\ Len(noteLinks[1]) = 3
  /\ noteLinks[1][1].oid = 1
  /\ noteLinks[1][2].oid = 3
  /\ noteLinks[1][3].oid = 4
  /\ noteLinks[1][1].link = << Host, "p1" >>

\* --------------------------------------------------- properties of the scroll

\* autoScroll was called.
Scrolled == apc \in {"interval", "settle", "done", "threw"}

\* The interval callback runs in this step.
TickStep == apc = "interval" /\ scrollCount' = scrollCount + 1

\* autoScroll is called exactly when count exceeds 6, and its interval runs
\* at most 10 callbacks: while it is active fewer than 10 were made.
ScrollBounded ==
  /\ Scrolled => scrollArg > 6
  /\ apc = "skipped" => scrollArg <= 6
  /\ scrollCount <= 10
  /\ apc = "interval" => scrollCount < 10
  /\ totalHeight = scrollCount * 300

\* C32 as stated: scrolling happens only for a count above 6, takes at most
\* 10 steps, and a step that finds the page no taller than the step before
\* it found it is the last one.
C32_ScrollStopsWhenHeightStops ==
  /\ [](ScrollBounded)
  /\ [][(TickStep /\ scrollCount >= 1 /\ scrollHeight <= lastHeight)
          => apc' = "settle"]_vars

\* C32 amended: scrolling happens only for a count above 6 and takes at
\* most 10 steps; a step before the tenth is the last one exactly when the
\* distance scrolled so far, 300 per step, has reached the height the page
\* has at that step.
C32_ScrollStopsAtDistance ==
  /\ [](ScrollBounded)
  /\ [][TickStep =>
          (apc' = "settle" <=>
             \/ (scrollCount + 1) * 300 >= scrollHeight
             \/ scrollCount + 1 = 10)]_vars

\* A page of constant height 1800 was scrolled for a count of 7: the
\* scroll ended after the sixth step, when 1800 had been scrolled, although
\* the page had not grown at any step.
C32_Witness ==
  /\ apc = "done"
  /\ scrollArg = 7
  /\ scrollCount = 6
  /\ scrollHeight = 1800
  /\ lastHeight = 1800
  /\ totalHeight = 1800

\* ------------------------------------------- properties of the pipeline order

LoadPositions ==
  {"launch", "newContext", "newPage", "addCookiesEnv", "readCookieFile",
   "addCookiesFile"}

LoginPositions ==
  {"closeHeadless", "launchHeadful", "loginNewContext", "loginNewPage",
   "loginGoto", "loginSettle", "loginPollWait", "loginPoll", "loginCookies",
   "loginWrite", "loginClosePage", "loginCloseContext", "closeHeadful"}

ListingPositions ==
  {"gotoSearch", "waitFeeds", "waitFeedsMore", "scroll", "scrollSettle"}

\* The positions inside saveCookies: at the end of the search, and inside
\* handleLogin.
PersistPositions == {"saveCookies", "saveWrite"}

LoginPersistPositions == {"loginCookies", "loginWrite"}

\* The step of the pipeline a position of searchXiaohongshu belongs to:
\* 1 session load, 2 verify, 3 interactive login, 5 listing navigation,
\* 6 link discovery, 7 item batch, 8 session persist, 9 closing the browser,
\* 10 return; `resumed` is the number given to the load that follows a
\* login.
StageOf(pos, x, resumed) ==
  IF pos \in LoadPositions THEN resumed
  ELSE IF pos \in {"gotoExplore", "probe"} THEN 2
  ELSE IF pos \in LoginPositions THEN 3
  ELSE IF pos \in ListingPositions THEN 5
  ELSE IF pos = "extractNotes" THEN (IF x = "links" THEN 6 ELSE 7)
  ELSE IF pos \in PersistPositions THEN 8
  ELSE IF pos = "finalClose" THEN 9
  ELSE IF pos = "returned" THEN 10
  ELSE 0

\* The batch of request r has completed.
BatchDone(r) == xpc[r] = "returned"

\* C33 as stated: a search that has not failed moves through session load,
\* verify, login, listing navigation, link discovery, batch, persist and
\* return in that order, and it is inside saveCookies only after its batch
\* has completed.
C33_PipelineOrder ==
  /\ [](\A r \in Reqs :
          spc[r] \in PersistPositions \cup LoginPersistPositions =>
            BatchDone(r))
  /\ [][\A r \in Reqs :
          (err'[r] = "none" /\ spc[r] /= "idle") =>
            StageOf(spc'[r], xpc'[r], 1) >= StageOf(spc[r], xpc[r], 1)]_vars

\* C33 amended: the same order, with a second session load (4) between a
\* successful login and the listing navigation; from the listing navigation
\* on no step is skipped, so the search returns only through the persist
\* that follows the completed batch, which is entered once; handleLogin
\* saves the cookies a first time, inside the login, when it detected a
\* login.
C33_PipelineOrderWithLoginPersist ==
  /\ [](\A r \in Reqs :
          /\ spc[r] \in PersistPositions => (BatchDone(r) /\ err[r] = "none")
          /\ spc[r] \in LoginPersistPositions =>
               (loginDetected[r] /\ ~BatchDone(r))
          /\ (spc[r] \in LoadPositions /\ loginPath[r]) => loginSuccess[r])
  /\ [][\A r \in Reqs :
          (err'[r] = "none" /\ spc[r] /= "idle") =>
            LET from == StageOf(spc[r], xpc[r],
                                IF loginPath[r] THEN 4 ELSE 1)
                to == StageOf(spc'[r], xpc'[r],
                              IF loginPath'[r] THEN 4 ELSE 1)
            IN /\ to >= from
               /\ to > 5 => to <= from + 1
               /\ (to = 5 /\ from /= 5) => from \in {2, 4}
               /\ (to = 8 /\ from /= 8) => spc'[r] = "saveCookies"]_vars

\* A search that went through the interactive login has returned two
\* complete records; the cookie file holds the session of the login.
C33_Witness ==
  /\ spc[1] = "returned"
  /\ err[1] = "none"
  /\ loginCycles[1] = 1
  /\ loginSuccess[1]
  /\ Len(notes[1]) = 2
  /\ \A i \in 1 .. 2 : fate[1][i].how = "ok"
  /\ cookieFile \notin {"absent", "malformed"}

\* ------------------------------------------ properties of a failed saveCookies

\* C34: however saveCookies ends (context.cookies(), mkdir or writeFile
\* rejecting, or the file written), the search goes on as if it had
\* succeeded: at the end of the search no error is pending and the notes to
\* return are the notes of extractNotes, which the search then returns
\* unless closing the browser fails; inside handleLogin the detected login
\* stays detected, handleLogin returns true, and the search does not throw
\* the login failure.
C34_PersistFailureNotFatal ==
  /\ [](\A r \in Reqs :
          /\ spc[r] \in LoginPersistPositions => loginDetected[r]
          /\ err[r] = "loginFailed" => ~loginDetected[r]
          /\ err[r] \notin {"saveCookies", "saveWrite", "loginCookies",
                            "loginWrite"})
  /\ [][\A r \in Reqs :
          /\ (spc[r] \in PersistPositions /\ spc'[r] /= spc[r]) =>
               /\ spc'[r] \in {"saveWrite", "finalClose"}
               /\ err'[r] = "none"
               /\ notes'[r] = notes[r]
          /\ (spc[r] = "finalClose" /\ err[r] = "none"
                /\ spc'[r] = "returned") => notes'[r] = notes[r]
          /\ (spc[r] \in LoginPersistPositions /\ spc'[r] /= spc[r]) =>
               /\ spc'[r] \in {"loginWrite", "loginClosePage"}
               /\ loginDetected'[r]
               /\ err'[r] = "none"
          /\ (spc[r] = "loginCloseContext" /\ spc'[r] = "closeHeadful"
                /\ loginDetected[r]) => loginSuccess'[r]]_vars

\* There was no cookie file, the login was detected, and there still is no
\* cookie file: saveCookies failed inside handleLogin and again at the end
\* of the search, which has returned its two records.
C34_Witness ==
  /\ spc[1] = "returned"
  /\ err[1] = "none"
  /\ loginCycles[1] = 1
  /\ loginSuccess[1]
  /\ cookieFile = "absent"
  /\ Len(notes[1]) = 2
  /\ Len(noteLinks[1]) = 2

\* ------------------------------------------- properties of the shared queue

\* The positions of results[r] that hold a record.
Filled(arr) == {i \in 1 .. Len(arr) : arr[i] /= Undefined}

\* The workers of request r that hold a reference they have not finished.
Busy(r) == {w \in Workers : wpc[r][w] \in InFetch \cup {"stagger"}}

\* C35: in a batch over N references the references leave the queue in
\* input order, each once; no two workers hold the same reference; no
\* reference is fetched twice; a write to the result array fills one empty
\* slot and leaves the filled ones alone; and when the batch has returned
\* every reference was pulled and fetched once and every slot is filled.
C35_ExactlyOnce ==
  /\ [](\A r \in Reqs :
          xpc[r] \in {"workers", "returned"} =>
            LET n == Len(noteLinks[r]) IN
              /\ Len(pulls[r]) + Len(queue[r]) = n
              /\ \A k \in 1 .. Len(pulls[r]) :
                   pulls[r][k] = noteLinks[r][k].oid
              /\ \A k \in 1 .. Len(queue[r]) :
                   queue[r][k] = noteLinks[r][Len(pulls[r]) + k]
              /\ \A v, w \in Busy(r) :
                   v /= w => noteInfo[r][v].oid /= noteInfo[r][w].oid
              /\ \A i \in 1 .. n : fate[r][i].fetches <= 1
              /\ Filled(results[r]) \subseteq 1 .. Len(pulls[r])
              /\ Returned(r) =>
                   /\ queue[r] = <<>>
                   /\ \A i \in 1 .. n : fate[r][i].fetches = 1
                   /\ Filled(results[r]) = 1 .. n)
  /\ [][\A r \in Reqs :
          (xpc[r] = "workers" /\ results'[r] /= results[r]) =>
            /\ \A i \in Filled(results[r]) : results'[r][i] = results[r][i]
            /\ Cardinality(Filled(results'[r])) =
                 Cardinality(Filled(results[r])) + 1]_vars

\* A batch over four references returned: the fourth reference was pulled
\* by the worker that finished first, after the first three, and each of
\* the four was fetched once.
C35_Witness ==
  /\ Returned(1)
  /\ Len(noteLinks[1]) = 4
  /\ Len(pulls[1]) = 4
  /\ pulls[1][4] = noteLinks[1][4].oid
  /\ \A i \in 1 .. 4 : fate[1][i].fetches = 1
  /\ Filled(results[1]) = 1 .. 4
  /\ \A w \in Workers : wpc[1][w] \in {"none", "done"}

\* ----------------------------------------- properties of the browser's life

\* The browser search r launched last is still open.
BrowserOpen(r) == browser[r] \in {"headless", "headful"}

\* Search r has completed, by returning or by failing.
SearchOver(r) == spc[r] \in {"returned", "threw"}

\* A step in which search r launches a browser starts with no browser of
\* that search open.
LaunchesOneAtATime ==
  \A r \in Reqs :
    (BrowserOpen(r)' /\ browser'[r] /= browser[r]) => ~BrowserOpen(r)

\* C36 as stated: a search launches a browser only when none of its own is
\* open, and when it has returned or failed, on every path, the browser it
\* launched last is closed.
C36_BrowsersClosed ==
  /\ [](\A r \in Reqs : SearchOver(r) => ~BrowserOpen(r))
  /\ [][LaunchesOneAtATime]_vars

\* C36, amended: a search launches a browser only when none of its own is
\* open; a search that returned left no browser open; a search that failed
\* left a browser open only when the close in the final cleanup was
\* rejected, and the failure is then that close error.
C36_BrowsersClosedUnlessCloseRejected ==
  /\ [](\A r \in Reqs :
          /\ spc[r] = "returned" => browser[r] = "closed"
          /\ (spc[r] = "threw" /\ BrowserOpen(r)) => err[r] = "browserClose")
  /\ [][LaunchesOneAtATime]_vars

\* A search failed with the login error after one login cycle: the headless
\* and the headful browser were launched in turn and the last one is closed.
C36_Witness ==
  /\ spc[1] = "threw"
  /\ err[1] = "loginFailed"
  /\ loginCycles[1] = 1
  /\ browser[1] = "closed"

\* ------------------------------------- properties of the handler's caching

\* The store the cache answers from: the map in memory once init ran, the
\* content of the file before.
EffStore == IF initialized THEN cache ELSE ReadStore(cacheFile)

\* The keys whose entry is new or different in store `new`.
Assigned(old, new) ==
  {k \in DOMAIN new : k \notin DOMAIN old \/ new[k] /= old[k]}

\* A step that creates or overwrites an entry, in memory or in the file,
\* belongs to the set of a request whose search returned, and the entry is
\* the one of the request's key.
AssignsAfterSearch ==
  \A k \in Assigned(EffStore, EffStore') \cup
           Assigned(ReadStore(cacheFile), ReadStore(cacheFile')) :
    \E r \in Reqs :
      /\ hpc'[r] = "set"
      /\ spc[r] = "returned"
      /\ k = GenerateKey(hreq[r].query, hreq[r].count)

\* Request r was answered 500 after its search threw.
RequestFailed(r) ==
  hpc[r] = "responded" /\ response[r].status = 500 /\ spc[r] = "threw"

\* C37 as stated: an entry is created or overwritten only by the set that
\* follows a search that returned, and when the request has failed the
\* cache file is the file the server started with.
C37_FailedSearchLeavesStores ==
  /\ [](RequestFailed(1) => cacheFile \in HandlerFiles)
  /\ [][AssignsAfterSearch]_vars

\* C37, amended: an entry is created or overwritten only by the set that
\* follows a search that returned; when the request has failed, every entry
\* in memory and in the file is an entry the server started with, and the
\* file differs from the one the server started with only by the expired
\* entries the get of the request removed, or by the damage a rejected
\* rewrite after that removal did.
C37_FailedSearchWritesNoEntry ==
  /\ [](RequestFailed(1) =>
          /\ \A k \in DOMAIN cache :
               \E e \in HandlerEntries : cache[k] = HandlerStore(e)[k]
          /\ \A k \in DOMAIN ReadStore(cacheFile) :
               \E e \in HandlerEntries :
                 ReadStore(cacheFile)[k] = HandlerStore(e)[k]
          /\ cacheFile \notin HandlerFiles =>
               cacheFile \in {JsonFile(EmptyStore), CorruptFile})
  /\ [][AssignsAfterSearch]_vars

\* The request missed a cache whose file could not be read, its search
\* threw and it was answered 500: the file still holds the fresh entries.
C37_Witness ==
  /\ RequestFailed(1)
  /\ searches[1] = 1
  /\ cacheFile = JsonFile(HandlerStore("fresh"))

\* ------------------------------------------- the repeated-request specification

\* The query of the second request: another spelling of the first one.
RepeatQueries == { << "c" >> }

\* One request and everything it sets going; when it was answered, time
\* passes and a second request arrives with the same count and a query that
\* normalizes to the same key.  The lookup of the second request is
\* followed to the handler's decision; a search it starts is not.
NextRepeat ==
  \/ \E q \in HandlerQueries, n \in SearchCounts : SearchRequest(1, q, n)
  \/ CacheHit(1)
  \/ CacheMiss(1)
  \/ SearchReturned(1)
  \/ SearchThrew(1)
  \/ SetReturned(1)
  \/ CacheStep(1)
  \/ SearchStep(1)
  \/ NextBatch
  \/ /\ hpc[1] = "responded"
     /\ hpc[2] = "idle"
     /\ \E d \in {1, CACHE_EXPIRY_MS} : Tick(d)
  \/ /\ hpc[1] = "responded"
     /\ response[1].status = 200
     /\ \E q \in RepeatQueries : SearchRequest(2, q, hreq[1].count)
  \/ CacheHit(2)
  \/ CacheMiss(2)
  \/ CacheStep(2)

SpecRepeat == InitHandler /\ [][NextRepeat]_vars

\* The search of request 1 returned an array and the request was answered.
FirstSearched ==
  hpc[1] = "responded" /\ response[1].status = 200 /\ searches[1] = 1

\* The key of the first request.
FirstKey == GenerateKey(hreq[1].query, hreq[1].count)

\* The handler of request 2 has decided between the cache and a search.
SecondDecided == hpc[2] \in {"search", "responded"}

\* C38: when the search of a request returned an array and the request was
\* answered, the cache holds that array under the request's key, as it was
\* returned; a second request for the same key whose lookup runs no more
\* than CACHE_EXPIRY_MS after the set is answered 200 with the same body and
\* calls no search.
C38_ReturnedArraysAreCached ==
  FirstSearched =>
    /\ response[1].body = JsonNotes(notes[1])
    /\ hpc[2] = "idle" =>
         /\ FirstKey \in DOMAIN cache
         /\ cache[FirstKey].data = notes[1]
    /\ (SecondDecided /\
        chist[2].start - written[FirstKey].at <= 14 * 24 * 60 * 60 * 1000) =>
         /\ hpc[2] = "responded"
         /\ response[2] = [status |-> 200, body |-> JsonNotes(notes[1])]
         /\ searches[2] = 0

\* The search of the first request returned an empty array; the second
\* request arrived exactly CACHE_EXPIRY_MS later under another spelling of
\* the query and was answered with the empty array, without a search.
C38_Witness ==
  /\ FirstSearched
  /\ notes[1] = << >>
  /\ hreq[2].query /= hreq[1].query
  /\ chist[2].start - written[FirstKey].at = 14 * 24 * 60 * 60 * 1000
  /\ hpc[2] = "responded"
  /\ response[2] = [status |-> 200, body |-> << >>]
  /\ searches[2] = 0

\* ------------------------------------------- properties of the cache's reads

\* Call c takes this step, and it is a getStats, a get on a key with no
\* entry, or a get on an entry that has not expired; the steps in which a
\* get removes the expired entry of its key are not among them.
ReadStep(c) ==
  /\ cpc'[c] /= cpc[c]
  /\ cargs'[c].op \in {"get", "stats"}
  /\ cpc[c] /= "getSave"
  /\ cpc'[c] /= "getSave"
  /\ cargs'[c].op = "get" =>
       \/ chist'[c].target = NoEntry
       \/ ~(now - chist'[c].target.timestamp > 14 * 24 * 60 * 60 * 1000)

\* C39 as stated: a step of a get that hits, of a get on an absent key or of
\* getStats leaves the entries in memory and the cache file as they were.
C39_ReadsLeaveStores ==
  [][\A c \in Reqs :
       ReadStep(c) =>
         /\ initialized => cache' = cache
         /\ cacheFile' = cacheFile]_vars

\* C39, amended: once the store is loaded, a step of a get that hits, of a
\* get on an absent key or of getStats leaves the entries in memory and the
\* cache file as they were; on the first call such a step creates and
\* alters no entry, and removes from the file only entries that have
\* expired (or damages the file when the rewrite is rejected).  The
\* timestamp of an entry in memory is the time of the last set of its key.
C39_ReadsLeaveLoadedStores ==
  /\ [](\A k \in DOMAIN cache \cap DOMAIN written :
          cache[k].timestamp = written[k].at)
  /\ [][\A c \in Reqs :
          ReadStep(c) =>
            /\ initialized => (cache' = cache /\ cacheFile' = cacheFile)
            /\ Assigned(EffStore, EffStore') = {}
            /\ Assigned(ReadStore(cacheFile), ReadStore(cacheFile')) = {}
            /\ \A k \in DOMAIN ReadStore(cacheFile) \
                          DOMAIN ReadStore(cacheFile') :
                 \/ cacheFile' = CorruptFile
                 \/ now - ReadStore(cacheFile)[k].timestamp >
                      14 * 24 * 60 * 60 * 1000]_vars

\* A get hit an entry that was set CACHE_EXPIRY_MS earlier, after an
\* earlier read of the same key: the entry still carries the time of the
\* set and the file still holds what the set wrote.
C39_Witness ==
  /\ calls >= 3
  /\ cpc[1] = "returned"
  /\ lastCall.op = "get"
  /\ lastCall.ret /= Null
  /\ lastCall.key \in DOMAIN written
  /\ lastCall.at - written[lastCall.key].at = 14 * 24 * 60 * 60 * 1000
  /\ cache[lastCall.key].timestamp = written[lastCall.key].at
  /\ cacheFile = JsonFile(JsonStringify(cache))

\* --------------------------------------------- the batch under fair scheduling

\* Every page operation eventually returns or fails and every timer fires:
\* as long as an operation or a timer of the batch is pending, one of them
\* settles and its continuation runs.
BatchFairness == WF_vars(NextBatch)

SpecBatchFair == SpecBatch /\ BatchFairness

\* The batch of request r has completed: the queue is empty, every worker
\* that was started has left its loop, and every reference has its slot
\* filled.
BatchComplete(r) ==
  /\ xpc[r] = "returned"
  /\ queue[r] = << >>
  /\ \A w \in Workers : wpc[r][w] \in {"none", "done"}
  /\ Filled(results[r]) = 1 .. Len(noteLinks[r])
  /\ Len(notes[r]) = Len(noteLinks[r])

\* C40: when every page operation eventually returns or fails, a batch that
\* was started eventually completes with the queue empty, all workers
\* finished and a record in the slot of each of its N references.
C40_BatchTerminates ==
  \A r \in Reqs : (xpc[r] = "links") ~> BatchComplete(r)

\* A batch over more references than workers completed although the fetch
\* of one reference failed at its navigation.
C40_Witness ==
  /\ BatchComplete(1)
  /\ Len(noteLinks[1]) > 3
  /\ \E i \in 1 .. Len(noteLinks[1]) : results[1][i].content = "Failed to get content"

====
